---- MODULE Spec2Model ----
(***************************************************************************)
(* The changelist / resource reconciliation engine of vscode-perforce:     *)
(* Model.Refresh, Model.updateStatus and the chunked fstat fetch of        *)
(* src/src/scm/Model.ts, run against a perforce server whose answers are   *)
(* formed the way src/unnamed/part_002 (StubPerforceService) forms them.   *)
(*                                                                         *)
(* Text is a tuple of one-character strings, so that startsWith, parseInt, *)
(* toString and string concatenation are computed, not assumed.  The keys   *)
(* of an fstat record are only ever compared for equality and are plain   *)
(* strings.                                                                *)
(***************************************************************************)
EXTENDS Integers, Sequences, FiniteSets, Bags, TLC

(***************************************************************************)
(* Bounds of the model                                                     *)
(***************************************************************************)
\* largest value of the maxFilePerCommand setting
MaxChunk == 2
\* largest number of files, opened and shelved, on the server
MaxFiles == 2
\* largest number of Refresh calls made on the Model in one behaviour
MaxRefreshes == 2
\* longest path list handed to the fstat fetch on its own
MaxFetch == 4

\* depot paths known to the server
Paths == {<<"/", "/", "a">>, <<"/", "/", "b">>}

\* numbers the pending changelists of the server can have
ChangeNumbers == {2, 13}

(***************************************************************************)
(* Text helpers                                                            *)
(***************************************************************************)
DigitChars == <<"0", "1", "2", "3", "4", "5", "6", "7", "8", "9">>

IsDigit(ch) == \E i \in 1..10 : DigitChars[i] = ch

DigitValue(ch) == (CHOOSE i \in 1..10 : DigitChars[i] = ch) - 1

\* String.prototype.startsWith
StartsWith(s, prefix) ==
  /\ Len(prefix) <= Len(s)
  /\ SubSeq(s, 1, Len(prefix)) = prefix

\* Number.prototype.toString for a non-negative integer
RECURSIVE NumToString(_)
NumToString(n) ==
  IF n < 10 THEN <<DigitChars[n + 1]>>
  ELSE NumToString(n \div 10) \o <<DigitChars[(n % 10) + 1]>>

NaN == -1

\* parseInt: the value of the longest prefix of decimal digits, NaN when
\* the text does not start with a digit
RECURSIVE ParseDigits(_, _, _)
ParseDigits(s, i, acc) ==
  IF i > Len(s) \/ ~IsDigit(s[i]) THEN acc
  ELSE ParseDigits(s, i + 1, acc * 10 + DigitValue(s[i]))

ParseInt(s) ==
  IF Len(s) = 0 \/ ~IsDigit(s[1]) THEN NaN ELSE ParseDigits(s, 1, 0)

DefaultStr == <<"d", "e", "f", "a", "u", "l", "t">>
UndefinedStr == <<"u", "n", "d", "e", "f", "i", "n", "e", "d">>
PendingIdPrefix == <<"p", "e", "n", "d", "i", "n", "g", ":">>
DefaultLabel == <<"D", "e", "f", "a", "u", "l", "t", " ",
                  "C", "h", "a", "n", "g", "e", "l", "i", "s", "t">>

\* Array.prototype.reverse
Reverse(s) == [i \in 1..Len(s) |-> s[Len(s) + 1 - i]]

\* Array.prototype.reduce((prev, cur) => prev.concat(cur), [])
RECURSIVE Flatten(_)
Flatten(ss) == IF ss = <<>> THEN <<>> ELSE Head(ss) \o Flatten(Tail(ss))

Range(s) == {s[i] : i \in DOMAIN s}

\* the sequences without repetition over a set, of length at most n
RECURSIVE DistinctSeqs(_, _)
DistinctSeqs(S, n) ==
  IF n = 0 THEN {<<>>}
  ELSE LET shorter == DistinctSeqs(S, n - 1)
       IN shorter \cup UNION {{Append(s, x) : x \in S \ Range(s)} : s \in shorter}

(***************************************************************************)
(* The perforce server and the text its commands print                     *)
(*                                                                         *)
(* A server state is a record                                              *)
(*   changelists : the pending changelists in the order `changes' lists    *)
(*                 them, each [chnum, description, shelvedFiles]           *)
(*   opened      : the opened files in the order `opened' lists them, each *)
(*                 [depotPath, change], change 0 being the default one     *)
(*   defaultAt   : the number of pending changelists that stand before    *)
(*                 the default changelist in the list of the server       *)
(*   outside     : the depot paths mapped outside every workspace folder   *)
(***************************************************************************)
WsRoot == <<"/", "w">>
ExtRoot == <<"/", "x">>
TrueStr == <<"t", "r", "u", "e">>
EditStr == <<"e", "d", "i", "t">>
TextStr == <<"t", "e", "x", "t">>

\* StubFile.localFile: where a depot path lives on the client
LocalFile(sv, f) == IF f \in sv.outside THEN ExtRoot \o f ELSE WsRoot \o f

\* the `change' column of an opened file: "default" or the number
ChangeText(ch) == IF ch = 0 THEN DefaultStr ELSE NumToString(ch)

BlankLine == [kind |-> "other", num |-> <<>>, text |-> <<>>, action |-> <<>>]

\* `changes -c <client> -s pending': one line per pending changelist
\* "Change <num> on <date> by <user>@<client> *pending* '<description>'"
ChangesOutput(sv) ==
  [i \in 1..Len(sv.changelists) |->
     [kind |-> "change",
      num |-> NumToString(sv.changelists[i].chnum),
      text |-> sv.changelists[i].description,
      action |-> <<>>]]

\* `opened': one line per opened file
\* "<depotPath>#<rev> - <op> <default change|change <n>> (<filetype>)"
OpenedOutput(sv) ==
  [i \in 1..Len(sv.opened) |->
     [kind |-> "opened",
      num |-> ChangeText(sv.opened[i].change),
      text |-> sv.opened[i].depotPath,
      action |-> EditStr]]

\* the part of the describe output that belongs to one changelist
DescribeOne(c) ==
  << [kind |-> "header", num |-> NumToString(c.chnum), text |-> <<>>,
      action |-> <<>>],
     BlankLine,
     [kind |-> "other", num |-> <<>>, text |-> c.description, action |-> <<>>],
     BlankLine >>
  \o [i \in 1..Len(c.shelvedFiles) |->
        [kind |-> "file", num |-> <<>>, text |-> c.shelvedFiles[i],
         action |-> EditStr]]

\* `describe -Ss <chnums>': the parts of the changelists asked for, in the
\* order asked, joined by a blank line; a number the server does not hold
\* prints nothing on stdout
RECURSIVE DescribeOutput(_, _)
DescribeOutput(sv, chnums) ==
  IF chnums = <<>> THEN <<>>
  ELSE LET found == SelectSeq(sv.changelists, LAMBDA c : c.chnum = Head(chnums))
           this == IF found = <<>> THEN <<>> ELSE DescribeOne(found[1])
           rest == DescribeOutput(sv, Tail(chnums))
       IN IF this = <<>> THEN rest
          ELSE IF rest = <<>> THEN this
          ELSE this \o <<BlankLine>> \o rest

\* the file is among the files of the changelist numbered ch
OpenedIn(sv, f, ch) ==
  \E j \in DOMAIN sv.opened : sv.opened[j] = [depotPath |-> f, change |-> ch]

\* the pending changelists that hold the path among their files or their
\* shelved files
HoldersOf(sv, f) ==
  {i \in DOMAIN sv.changelists :
     \/ f \in Range(sv.changelists[i].shelvedFiles)
     \/ OpenedIn(sv, f, sv.changelists[i].chnum)}

NoPendingFile == -1

\* StubPerforceService.getFstatOutput: cl is the first changelist of the
\* server's list that holds the path among its files or its shelved files
\* (the default changelist stands after defaultAt pending ones, and a
\* changelist that `changes' does not list stands after the listed ones);
\* pendingFile is the path among the files of cl.  The value is the number
\* of cl, 0 for the default one, when pendingFile is defined
PendingFile(sv, f) ==
  LET hs == HoldersOf(sv, f)
      first == IF hs = {} THEN Len(sv.changelists) + 1
               ELSE CHOOSE i \in hs : \A j \in hs : i <= j
  IN IF OpenedIn(sv, f, 0) /\ sv.defaultAt < first THEN 0
     ELSE IF hs # {}
     THEN IF OpenedIn(sv, f, sv.changelists[first].chnum)
          THEN sv.changelists[first].chnum ELSE NoPendingFile
     ELSE IF \E j \in DOMAIN sv.opened : sv.opened[j].depotPath = f
     THEN sv.opened[CHOOSE j \in DOMAIN sv.opened :
                      sv.opened[j].depotPath = f].change
     ELSE NoPendingFile

\* getFstatOutput returns a text: the stub prints a record only for a path
\* whose pendingFile is defined
HasRecord(sv, f) == PendingFile(sv, f) # NoPendingFile

FLine(k, v) == [key |-> k, hasValue |-> TRUE, value |-> v]
FFlag(k) == [key |-> k, hasValue |-> FALSE, value |-> <<>>]

\* the "... key value" lines getFstatOutput returns for a path with a
\* record
FstatSection(sv, f) ==
  << FLine("depotFile", f),
     FLine("clientFile", LocalFile(sv, f)),
     FFlag("isMapped"),
     FLine("headType", TextStr),
     FLine("action", EditStr),
     FLine("change", ChangeText(PendingFile(sv, f))) >>

\* the paths of a request for which fstat prints a record, in the order
\* asked and as often as asked
Recorded(sv, files) == SelectSeq(files, LAMBDA f : HasRecord(sv, f))

\* the orders in which fstat may print the records of one request: the
\* stub prints them in the order asked, a server may print them in any
FstatOrders(sv, files) ==
  LET rec == Recorded(sv, files)
  IN {[i \in 1..Len(rec) |-> rec[o[i]]] :
        o \in {q \in DistinctSeqs(1..Len(rec), Len(rec)) : Len(q) = Len(rec)}}

\* `fstat "<p1>" "<p2>" ...': the sections of the recorded files, in the
\* order `order'
FstatOutput(sv, order) == [i \in 1..Len(order) |-> FstatSection(sv, order[i])]

(***************************************************************************)
(* Configuration (the "perforce" settings section)                         *)
(***************************************************************************)
NoPrefix == [defined |-> FALSE, value |-> <<>>]
IgnorePrefix == [defined |-> TRUE, value |-> <<"i", ":">>]

\* the descriptions a changelist of the model can have
Descriptions == {<<"i", ":", "m">>, <<"n">>}

\* Model.getChangelistOrder
getChangelistOrder(cfg) == cfg.changelistOrder

\* Model.getIgnoredChangelistPrefix
getIgnoredChangelistPrefix(cfg) == cfg.ignoredChangelistPrefix

\* Model.hideNonWorkspaceFiles
hideNonWorkspaceFiles(cfg) == cfg.hideNonWorkspaceFiles

\* Model.hideShelvedFiles: reads the hideNonWorkspaceFiles setting
hideShelvedFiles(cfg) == cfg.hideNonWorkspaceFiles

\* description.startsWith(prefix): an undefined argument is converted to
\* the text "undefined"
DescriptionStartsWith(description, prefix) ==
  IF prefix.defined THEN StartsWith(description, prefix.value)
  ELSE StartsWith(description, UndefinedStr)

\* if (prefix): undefined and the empty text are falsy
IsTruthyPrefix(prefix) == prefix.defined /\ prefix.value # <<>>

(***************************************************************************)
(* Parsers of Model.ts                                                     *)
(***************************************************************************)
\* output.trim().split("\n"): an empty output gives one empty line
SplitLines(output) == IF output = <<>> THEN <<BlankLine>> ELSE output

\* Model.parseChangelistDescription, mapped over the lines and filtered
\* for the lines that matched
parseChangelistDescription(lines) ==
  LET matched == SelectSeq(lines, LAMBDA l : l.kind = "change")
  IN [i \in 1..Len(matched) |->
        [chnum |-> ParseInt(matched[i].num), description |-> matched[i].text]]

\* ChangeInfosOf without the reversal for "ascending"
ChangeInfosOfNoReverse(cfg, output) ==
  LET prefix == getIgnoredChangelistPrefix(cfg)
      all == parseChangelistDescription(SplitLines(output))
      ignored == SelectSeq(all,
                   LAMBDA c : DescriptionStartsWith(c.description, prefix))
  IN [changeInfos |->
        IF IsTruthyPrefix(prefix)
        THEN SelectSeq(all,
               LAMBDA c : ~DescriptionStartsWith(c.description, prefix))
        ELSE all,
      ignoredChangelists |-> {ignored[i].chnum : i \in DOMAIN ignored}]

\* the changelists updateStatus displays and the numbers it ignores
ChangeInfosOf(cfg, output) ==
  LET split == SplitLines(output)
      changelists == IF getChangelistOrder(cfg) = "ascending"
                     THEN Reverse(split) ELSE split
      prefix == getIgnoredChangelistPrefix(cfg)
      all == parseChangelistDescription(changelists)
      ignored == SelectSeq(all,
                   LAMBDA c : DescriptionStartsWith(c.description, prefix))
  IN [changeInfos |->
        IF IsTruthyPrefix(prefix)
        THEN SelectSeq(all,
               LAMBDA c : ~DescriptionStartsWith(c.description, prefix))
        ELSE all,
      ignoredChangelists |-> {ignored[i].chnum : i \in DOMAIN ignored}]

\* the line loop of Model.getDepotShelvedFilePaths: a header line sets the
\* current changelist, a file line is attributed to it
RECURSIVE ShelvedFilesFrom(_, _)
ShelvedFilesFrom(lines, curCh) ==
  IF lines = <<>> THEN <<>>
  ELSE LET l == Head(lines)
       IN IF l.kind = "header"
          THEN ShelvedFilesFrom(Tail(lines), ParseInt(l.num))
          ELSE IF l.kind = "file"
          THEN <<[chnum |-> curCh, path |-> l.text, action |-> l.action]>>
               \o ShelvedFilesFrom(Tail(lines), curCh)
          ELSE ShelvedFilesFrom(Tail(lines), curCh)

\* the line loop with the current changelist set by the first header only
RECURSIVE ShelvedFilesFirstHeader(_, _)
ShelvedFilesFirstHeader(lines, curCh) ==
  IF lines = <<>> THEN <<>>
  ELSE LET l == Head(lines)
       IN IF l.kind = "header"
          THEN ShelvedFilesFirstHeader(Tail(lines),
                 IF curCh = 0 THEN ParseInt(l.num) ELSE curCh)
          ELSE IF l.kind = "file"
          THEN <<[chnum |-> curCh, path |-> l.text, action |-> l.action]>>
               \o ShelvedFilesFirstHeader(Tail(lines), curCh)
          ELSE ShelvedFilesFirstHeader(Tail(lines), curCh)

\* getDepotShelvedFilePaths attributing every file to the first header
getDepotShelvedFilePathsFirstHeader(output) ==
  ShelvedFilesFirstHeader(SplitLines(output), 0)

\* Model.getDepotShelvedFilePaths, applied to the describe output
getDepotShelvedFilePaths(output) == ShelvedFilesFrom(SplitLines(output), 0)

\* Model.getDepotOpenedFilePaths, applied to the opened output
getDepotOpenedFilePaths(output) ==
  LET matched == SelectSeq(SplitLines(output), LAMBDA l : l.kind = "opened")
  IN [i \in 1..Len(matched) |-> matched[i].text]

(***************************************************************************)
(* Chunked fstat fetch                                                     *)
(***************************************************************************)
\* Model.splitArray, for a chunk size of at least one
RECURSIVE SplitFrom(_, _, _)
SplitFrom(arr, i, chunkSize) ==
  IF i >= Len(arr) THEN <<>>
  ELSE <<SubSeq(arr, i + 1,
                IF i + chunkSize < Len(arr) THEN i + chunkSize ELSE Len(arr))>>
       \o SplitFrom(arr, i + chunkSize, chunkSize)

splitArray(arr, chunkSize) == SplitFrom(arr, 0, chunkSize)

EmptyMap == [k \in {} |-> <<>>]

UndefinedInfo == [defined |-> FALSE, map |-> EmptyMap]

\* the line loop of getFstatInfoForChunk: "... key value" sets the key, a
\* key without a value is set to "true", a later line overrides
RECURSIVE LineMap(_, _)
LineMap(lines, acc) ==
  IF lines = <<>> THEN acc
  ELSE LET l == Head(lines)
           v == IF l.hasValue /\ l.value # <<>> THEN l.value ELSE TrueStr
       IN LineMap(Tail(lines), (l.key :> v) @@ acc)

\* fstatOutput.trim().split(/\n\r?\n/): an empty output gives one empty
\* section
SplitSections(output) == IF output = <<>> THEN <<(<<>>)>> ELSE output

\* all.find(fs => fs["depotFile"] === file)
FindInfo(all, file) ==
  LET hits == {i \in DOMAIN all :
                 "depotFile" \in DOMAIN all[i] /\ all[i]["depotFile"] = file}
  IN IF hits = {} THEN UndefinedInfo
     ELSE [defined |-> TRUE,
           map |-> all[CHOOSE i \in hits : \A j \in hits : i <= j]]

\* getFstatInfoForChunk pairing the sections with the paths by position
getFstatInfoForChunkByPosition(files, output) ==
  LET sections == SplitSections(output)
      all == [i \in 1..Len(sections) |-> LineMap(sections[i], EmptyMap)]
  IN [i \in 1..Len(files) |->
        IF i <= Len(all) /\ "depotFile" \in DOMAIN all[i]
        THEN [defined |-> TRUE, map |-> all[i]]
        ELSE UndefinedInfo]

\* Model.getFstatInfoForChunk, applied to the fstat output of the chunk
getFstatInfoForChunk(files, output) ==
  LET sections == SplitSections(output)
      all == [i \in 1..Len(sections) |-> LineMap(sections[i], EmptyMap)]
  IN [i \in 1..Len(files) |-> FindInfo(all, files[i])]

\* info[key], undefined being the empty text
Field(info, key) ==
  IF key \in DOMAIN info.map THEN info.map[key] ELSE <<>>

(***************************************************************************)
(* Resources and resource groups                                           *)
(***************************************************************************)
\* new Resource(model, depotPath, uri, change, isShelved, action, ...);
\* an undefined uri is the empty text
Resource(depotPath, uri, change, isShelved, action) ==
  [kind |-> "resource", depotPath |-> depotPath, uri |-> uri,
   change |-> change, isShelved |-> isShelved, action |-> action]

\* the undefined entry getResourceFromFileInfo leaves for a hidden file
UndefinedResource ==
  [kind |-> "undefined", depotPath |-> <<>>, uri |-> <<>>,
   change |-> <<>>, isShelved |-> FALSE, action |-> <<>>]

\* workspace.getWorkspaceFolder(uri) is defined
InWorkspace(uri) == StartsWith(uri, WsRoot)

\* Model.getResourceFromFileInfo, for a defined info
getResourceFromFileInfo(cfg, info) ==
  IF hideNonWorkspaceFiles(cfg) /\ ~InWorkspace(Field(info, "clientFile"))
  THEN UndefinedResource
  ELSE Resource(Field(info, "depotFile"), Field(info, "clientFile"),
                Field(info, "change"), FALSE, Field(info, "action"))

\* Model.getShelvedResources, applied to the fstat result of the files
getShelvedResources(files, fstatInfo) ==
  [i \in 1..Len(fstatInfo) |->
     Resource(files[i].path,
              IF fstatInfo[i].defined
              THEN Field(fstatInfo[i], "clientFile") ELSE <<>>,
              NumToString(files[i].chnum), TRUE, files[i].action)]

\* Model.getDepotOpenedResources reads info["clientFile"] of every entry:
\* an undefined entry raises a TypeError
OpenedThrows(fstatInfo) == \E i \in DOMAIN fstatInfo : ~fstatInfo[i].defined

\* Model.getDepotOpenedResources, applied to the fstat result
getDepotOpenedResources(cfg, fstatInfo) ==
  [i \in 1..Len(fstatInfo) |-> getResourceFromFileInfo(cfg, fstatInfo[i])]

\* allResources.forEach reads resource.change of every entry: an undefined
\* entry raises a TypeError
BucketThrows(allResources) ==
  \E i \in DOMAIN allResources : allResources[i].kind = "undefined"

\* openResources.concat(shelvedResources)
AllResourcesOpenFirst(shelvedResources, openResources) ==
  openResources \o shelvedResources

\* shelvedResources.concat(openResources)
AllResources(shelvedResources, openResources) ==
  shelvedResources \o openResources

IsDefaultChange(r) == StartsWith(r.change, DefaultStr)

\* the `defaults' array of updateStatus
DefaultsOf(allResources) == SelectSeq(allResources, IsDefaultChange)

\* the keys of the `pendings' map of updateStatus, in insertion order
RECURSIVE PendingKeys(_, _)
PendingKeys(allResources, seen) ==
  IF allResources = <<>> THEN <<>>
  ELSE LET r == Head(allResources)
           k == ParseInt(r.change)
       IN IF IsDefaultChange(r) \/ k \in seen
          THEN PendingKeys(Tail(allResources), seen)
          ELSE <<k>> \o PendingKeys(Tail(allResources), seen \cup {k})

\* pendings.get(chnum)
PendingsOf(allResources, chnum) ==
  SelectSeq(allResources,
            LAMBDA r : ~IsDefaultChange(r) /\ ParseInt(r.change) = chnum)

Group(id, label, resourceStates) ==
  [id |-> id, label |-> label, resourceStates |-> resourceStates]

\* the default group updateStatus creates
NewDefaultGroup(allResources) ==
  Group(DefaultStr, DefaultLabel, DefaultsOf(allResources))

\* groups created only for the changelists that have a resource
NewPendingGroupsNonEmpty(changeInfos, allResources) ==
  LET used == SelectSeq(changeInfos,
                LAMBDA c : PendingsOf(allResources, c.chnum) # <<>>)
  IN [i \in 1..Len(used) |->
        [chnum |-> used[i].chnum,
         description |-> used[i].description,
         disposed |-> FALSE,
         group |-> Group(PendingIdPrefix \o NumToString(used[i].chnum),
                         <<"#">> \o NumToString(used[i].chnum)
                           \o <<":", " ">> \o used[i].description,
                         PendingsOf(allResources, used[i].chnum))]]

\* the entries updateStatus puts into _pendingGroups, in insertion order
\* (`disposed' tells whether dispose() was called on the group since):
\* one per displayed changelist (`changes' lists a number once), holding
\* the resources bucketed under its number
NewPendingGroups(changeInfos, allResources) ==
  [i \in 1..Len(changeInfos) |->
     [chnum |-> changeInfos[i].chnum,
      description |-> changeInfos[i].description,
      disposed |-> FALSE,
      group |-> Group(PendingIdPrefix \o NumToString(changeInfos[i].chnum),
                      <<"#">> \o NumToString(changeInfos[i].chnum)
                        \o <<":", " ">> \o changeInfos[i].description,
                      PendingsOf(allResources, changeInfos[i].chnum))]]

\* the log without the check of the ignored numbers
NotFoundWithIgnored(changeInfos, ignoredChangelists, allResources) ==
  {k \in Range(PendingKeys(allResources, {})) :
     \A i \in DOMAIN changeInfos : changeInfos[i].chnum # k}

\* the log left empty
NotFoundNothingLogged(changeInfos, ignoredChangelists, allResources) == {}

\* the numbers for which updateStatus logs "pending changelist not found"
NotFound(changeInfos, ignoredChangelists, allResources) ==
  {k \in Range(PendingKeys(allResources, {})) :
     /\ \A i \in DOMAIN changeInfos : changeInfos[i].chnum # k
     /\ k \notin ignoredChangelists}

\* the value the getter Model.ResourceGroups returns
ResourceGroups(cfg, dg, pg) ==
  dg \o LET shown == SelectSeq(pg,
                       LAMBDA e : ~(cfg.hideEmptyChangelists
                                    /\ Len(e.group.resourceStates) = 0))
        IN [i \in 1..Len(shown) |-> shown[i].group]

\* a sequence of groups as a bag
RECURSIVE BagOfSeq(_)
BagOfSeq(q) ==
  IF q = <<>> THEN EmptyBag ELSE SetToBag({Head(q)}) (+) BagOfSeq(Tail(q))

\* the groups the model holds and has not disposed, as a bag
HeldGroups(dg, pg) ==
  LET live == SelectSeq(pg, LAMBDA e : ~e.disposed)
  IN BagOfSeq(dg \o [i \in 1..Len(live) |-> live[i].group])

\* the getter Model.ResourceGroups also calls dispose() on every pending
\* group it leaves out; the entry stays in _pendingGroups
DisposeHidden(cfg, pg) ==
  [i \in 1..Len(pg) |->
     IF cfg.hideEmptyChangelists /\ Len(pg[i].group.resourceStates) = 0
     THEN [pg[i] EXCEPT !.disposed = TRUE] ELSE pg[i]]

(***************************************************************************)
(* The inputs: server states and configurations                            *)
(***************************************************************************)
\* the (description, shelved files) pairs one changelist can have
ChangelistBodies ==
  {[description |-> d, shelvedFiles |-> sh] :
     d \in Descriptions, sh \in DistinctSeqs(Paths, MaxFiles)}

\* the lists of pending changelists: each number at most once, in any order
ChangelistLists ==
  UNION {[1..Len(nums) -> ChangelistBodies] \X {nums} :
           nums \in DistinctSeqs(ChangeNumbers, Cardinality(ChangeNumbers))}

MakeChangelists(bodies, nums) ==
  [i \in 1..Len(nums) |->
     [chnum |-> nums[i], description |-> bodies[i].description,
      shelvedFiles |-> bodies[i].shelvedFiles]]

\* the lists of opened files: each path at most once, each in the default
\* changelist or in a numbered one
OpenedLists ==
  UNION {{[i \in 1..Len(ps) |-> [depotPath |-> ps[i], change |-> chs[i]]] :
             chs \in [1..Len(ps) -> {0} \cup ChangeNumbers]} :
           ps \in DistinctSeqs(Paths, MaxFiles)}

RECURSIVE SumLen(_)
SumLen(ss) == IF ss = <<>> THEN 0 ELSE Len(Head(ss)) + SumLen(Tail(ss))

\* the most iterations of the loop of splitArray that are followed
MaxSplit == 4

\* the path that may lie outside the workspace
\* (the paths are interchangeable, so one stands for all)
SpecialPath == <<"/", "/", "a">>

\* the server states
Servers ==
  {sv \in [changelists : {MakeChangelists(cl[1], cl[2]) : cl \in ChangelistLists},
           opened : OpenedLists,
           defaultAt : 0..Cardinality(ChangeNumbers),
           outside : {{}, {SpecialPath}}] :
     /\ Len(sv.opened)
          + SumLen([i \in 1..Len(sv.changelists) |->
                      sv.changelists[i].shelvedFiles]) <= MaxFiles
     /\ sv.defaultAt <= Len(sv.changelists)
     /\ sv.defaultAt # 0 =>
          \E f \in Paths : /\ OpenedIn(sv, f, 0)
                           /\ HoldersOf(sv, f) # {}
                           /\ sv.defaultAt = CHOOSE i \in HoldersOf(sv, f) :
                                                \A j \in HoldersOf(sv, f) : i <= j
     /\ \A f \in sv.outside :
          \/ \E i \in DOMAIN sv.opened : sv.opened[i].depotPath = f
          \/ \E i \in DOMAIN sv.changelists :
                f \in Range(sv.changelists[i].shelvedFiles)}

\* the settings as installed
DefaultConfig ==
  [changelistOrder |-> "descending",
   ignoredChangelistPrefix |-> NoPrefix,
   hideNonWorkspaceFiles |-> FALSE,
   hideShelvedFiles |-> FALSE,
   hideEmptyChangelists |-> FALSE,
   maxFilePerCommand |-> MaxChunk]

\* the configurations: any two settings changed from the installed ones
Configs ==
  {c \in [changelistOrder : {"ascending", "descending"},
          ignoredChangelistPrefix : {NoPrefix, IgnorePrefix},
          hideNonWorkspaceFiles : BOOLEAN,
          hideShelvedFiles : BOOLEAN,
          hideEmptyChangelists : BOOLEAN,
          maxFilePerCommand : 1..MaxChunk] :
     Cardinality({k \in DOMAIN c : c[k] # DefaultConfig[k]}) <= 2}

(***************************************************************************)
(* State                                                                   *)
(***************************************************************************)
VARIABLES
  server,         \* the state of the perforce server
  config,         \* the "perforce" settings
  defaultGroup,   \* Model._defaultGroup: <<>> (null) or <<group>>
  pendingGroups,  \* Model._pendingGroups, in insertion order
  sourceControl,  \* the groups created on _sourceControl and not disposed
  infos,          \* Model._infos: the client name, <<>> before updateInfo
  logged,         \* the numbers logged as "pending changelist not found"
  pc,             \* where each Refresh call stands
  local,          \* the locals of each Refresh call
  outcome,        \* how the last Refresh call of each caller ended
  budget,         \* the number of Refresh calls still to be made
  triggers,       \* the Refresh calls since the model was last quiescent
  issued,         \* the commands executed since then, by name
  lastGood,       \* the groups exposed when updateStatus last completed,
                  \* whether every command of that pass succeeded (full)
                  \* and the number of such passes so far (fulls)
  fetch,          \* a call of getFstatInfoForFiles on its own
  op,             \* a changelist operation called on the Model
  annotations     \* AnnotationProvider: the providers constructed, the
                  \* static _annotationsByUri and the annotate calls

vars == <<server, config, defaultGroup, pendingGroups, sourceControl, infos,
          logged, pc, local, outcome, budget, triggers, issued, lastGood,
          fetch, op, annotations>>

refreshVars == <<defaultGroup, pendingGroups, sourceControl, infos, logged,
                 pc, local, outcome, budget, triggers, issued, lastGood>>

modelVars == <<defaultGroup, pendingGroups, sourceControl>>

Callers == {1, 2}

ClientName == <<"c", "l", "i">>

Commands == {"info", "changes", "describe", "opened", "fstat"}

NoIssued == [c \in Commands |-> 0]

\* no answer of the server is awaited
NoServer == <<>>

\* a branch of updateStatus; sv is the server state its awaited commands
\* were executed against: StubPerforceService.execute forms the answer of
\* a command when the command is executed and delivers it later
IdleBranch == [st |-> "idle", files |-> <<>>, got |-> <<>>, resources |-> <<>>,
               sv |-> NoServer]

ReadyBranch(resources) ==
  [st |-> "ready", files |-> <<>>, got |-> <<>>, resources |-> resources,
   sv |-> NoServer]

NoLocal ==
  [changeInfos |-> <<>>, ignoredChangelists |-> {},
   shelved |-> IdleBranch, open |-> IdleBranch, openedFailed |-> FALSE,
   sv |-> NoServer]

Pending == [done |-> FALSE, infos |-> <<>>]

Count(cmd, n) == [issued EXCEPT ![cmd] = @ + n]

Quiescent == \A p \in Callers : pc[p] = "idle"

\* config.get("maxFilePerCommand") chunks of the paths
ChunksOf(paths) == splitArray(paths, config.maxFilePerCommand)

ShelvedPaths(files) == [i \in 1..Len(files) |-> files[i].path]

(***************************************************************************)
(* Model.Refresh and Model.updateStatus, one action per suspension point   *)
(***************************************************************************)
\* the Refresh call of caller p ends: resolved without a pass ("skipped"),
\* resolved after a pass ("updated", or "degraded" when the failure of
\* `opened' was caught on the way) or rejected: because `info' failed
\* ("infoFailed"), because a command of updateStatus failed
\* ("commandFailed") or because of a TypeError ("threw")
End(p, how) ==
  /\ pc' = [pc EXCEPT ![p] = "idle"]
  /\ local' = [local EXCEPT ![p] = NoLocal]
  /\ outcome' = [outcome EXCEPT ![p] = how]

\* Model.Refresh up to its first await: clean() disposes and drops the
\* groups, then isLoggedIn is awaited
RefreshStart(p) ==
  /\ pc[p] = "idle"
  /\ budget > 0
  /\ budget' = budget - 1
  /\ sourceControl' = sourceControl (-) HeldGroups(defaultGroup, pendingGroups)
  /\ defaultGroup' = <<>>
  /\ pendingGroups' = <<>>
  /\ pc' = [pc EXCEPT ![p] = "login"]
  /\ outcome' = [outcome EXCEPT ![p] = "running"]
  /\ triggers' = IF Quiescent THEN 1 ELSE triggers + 1
  /\ issued' = IF Quiescent THEN NoIssued ELSE issued
  /\ UNCHANGED <<server, config, annotations, fetch, infos, logged, local, lastGood>>

\* a Refresh call made on its own
Refresh(p) == RefreshStart(p) /\ UNCHANGED op

\* Refresh after isLoggedIn: return when not logged in, else updateInfo
\* executes `info'
RefreshLoggedIn(p) ==
  /\ pc[p] = "login"
  /\ \E loggedin \in BOOLEAN :
       IF loggedin
       THEN /\ pc' = [pc EXCEPT ![p] = "info"]
            /\ issued' = Count("info", 1)
            /\ UNCHANGED <<local, outcome>>
       ELSE /\ End(p, "skipped")
            /\ UNCHANGED issued
  /\ UNCHANGED <<server, config, annotations, fetch, op, modelVars, infos, logged, budget,
                 triggers, lastGood>>

\* Model.updateInfo after `info': _infos is set, updateStatus starts and
\* awaits isLoggedIn
UpdateInfoReturn(p) ==
  /\ pc[p] = "info"
  /\ \E ok \in BOOLEAN :
       IF ok
       THEN /\ infos' = ClientName
            /\ pc' = [pc EXCEPT ![p] = "login2"]
            /\ UNCHANGED <<local, outcome>>
       ELSE /\ End(p, "infoFailed")
            /\ UNCHANGED infos
  /\ UNCHANGED <<server, config, annotations, fetch, op, modelVars, logged, budget, triggers,
                 issued, lastGood>>

\* Model.updateStatus after isLoggedIn: return when not logged in, else
\* execute `changes'
UpdateStatusLoggedIn(p) ==
  /\ pc[p] = "login2"
  /\ \E loggedin \in BOOLEAN :
       IF loggedin
       THEN /\ pc' = [pc EXCEPT ![p] = "changes"]
            /\ local' = [local EXCEPT ![p].sv = server]
            /\ issued' = Count("changes", 1)
            /\ UNCHANGED outcome
       ELSE /\ End(p, "skipped")
            /\ UNCHANGED issued
  /\ UNCHANGED <<server, config, annotations, fetch, op, modelVars, infos, logged, budget,
                 triggers, lastGood>>

\* the branch state after a path listing arrived: one fstat per chunk is
\* executed, and with no chunk the resources are ready
BranchAfterListing(files, paths) ==
  IF ChunksOf(paths) = <<>> THEN ReadyBranch(<<>>)
  ELSE [st |-> "fstat", files |-> files,
        got |-> [i \in 1..Len(ChunksOf(paths)) |-> Pending],
        resources |-> <<>>, sv |-> server]

\* Model.updateStatus after `changes': the changelists are parsed, ordered
\* and filtered, and the shelved and the opened listings are started
ChangesReturn(p) ==
  /\ pc[p] = "changes"
  /\ \E ok \in BOOLEAN :
       IF ok
       THEN LET ci == ChangeInfosOf(config, ChangesOutput(local[p].sv))
                describes == ~hideShelvedFiles(config)
                             /\ ci.changeInfos # <<>>
            IN /\ pc' = [pc EXCEPT ![p] = "fetch"]
               /\ local' = [local EXCEPT ![p] =
                    [changeInfos |-> ci.changeInfos,
                     ignoredChangelists |-> ci.ignoredChangelists,
                     shelved |-> IF describes
                                 THEN [IdleBranch EXCEPT !.st = "cmd",
                                                         !.sv = server]
                                 ELSE ReadyBranch(<<>>),
                     open |-> [IdleBranch EXCEPT !.st = "cmd", !.sv = server],
                     openedFailed |-> FALSE,
                     sv |-> NoServer]]
               /\ issued' = [issued EXCEPT
                    !["describe"] = @ + (IF describes THEN 1 ELSE 0),
                    !["opened"] = @ + 1]
               /\ UNCHANGED outcome
       ELSE /\ End(p, "commandFailed")
            /\ UNCHANGED issued
  /\ UNCHANGED <<server, config, annotations, fetch, op, modelVars, infos, logged, budget,
                 triggers, lastGood>>

\* the results of the chunks, concatenated in chunk order
FstatInfoOf(got) == Flatten([i \in 1..Len(got) |-> got[i].infos])

AllDone(got) == \A i \in DOMAIN got : got[i].done

\* the records of a returning chunk stored at the first free position
GotAfterArrival(sv, got, paths, i, order) ==
  LET free == CHOOSE j \in DOMAIN got :
                ~got[j].done /\ \A k \in 1..(j - 1) : got[k].done
  IN [got EXCEPT ![free] =
        [done |-> TRUE,
         infos |-> getFstatInfoForChunk(ChunksOf(paths)[i],
                                        FstatOutput(sv, order))]]

\* the got list after chunk i of the listing `paths', executed against
\* the server state sv, returned its records in the order `order'
GotAfter(sv, got, paths, i, order) ==
  [got EXCEPT ![i] =
     [done |-> TRUE,
      infos |-> getFstatInfoForChunk(ChunksOf(paths)[i],
                                     FstatOutput(sv, order))]]

\* the got list after chunk i failed: the chunk is settled without records
GotFailed(got, i) == [got EXCEPT ![i] = [done |-> TRUE, infos |-> <<>>]]

\* the promise of a branch rejected; the chunks still awaited stay in got
RejectedBranch(b) ==
  [b EXCEPT !.st = "rejected", !.resources = <<>>, !.sv = NoServer]

\* a command of the branch is still awaited
Outstanding(b) ==
  \/ b.st = "cmd"
  \/ b.st \in {"fstat", "rejected"} /\ ~AllDone(b.got)

\* a step of one branch of Promise.all leaves the locals l and rejects its
\* branch in the way `how', or not ("none").  The first rejection rejects
\* updateStatus and with it the Refresh call; the other branch is not
\* cancelled: its commands are still executed and still return ("late"),
\* without effect on the Model, and the call is over once none is awaited
Settle(p, l, how) ==
  LET rejected == outcome[p] # "running" \/ how # "none"
      awaited == Outstanding(l.shelved) \/ Outstanding(l.open)
  IN /\ outcome' = [outcome EXCEPT
          ![p] = IF @ = "running" /\ how # "none" THEN how ELSE @]
     /\ pc' = [pc EXCEPT ![p] = IF ~rejected THEN "fetch"
                                ELSE IF awaited THEN "late" ELSE "idle"]
     /\ local' = [local EXCEPT
          ![p] = IF rejected /\ ~awaited THEN NoLocal ELSE l]

\* Model.getDepotShelvedFilePaths after `describe -Ss'
DescribeReturn(p) ==
  /\ pc[p] \in {"fetch", "late"}
  /\ local[p].shelved.st = "cmd"
  /\ \E ok \in BOOLEAN :
       IF ok
       THEN LET chnums == [i \in 1..Len(local[p].changeInfos) |->
                             local[p].changeInfos[i].chnum]
                files == getDepotShelvedFilePaths(
                           DescribeOutput(local[p].shelved.sv, chnums))
                branch == BranchAfterListing(files, ShelvedPaths(files))
            IN /\ Settle(p, [local[p] EXCEPT !.shelved = branch], "none")
               /\ issued' = Count("fstat", Len(branch.got))
       ELSE /\ Settle(p, [local[p] EXCEPT !.shelved = RejectedBranch(@)],
                      "commandFailed")
            /\ UNCHANGED issued
  /\ UNCHANGED <<server, config, annotations, fetch, op, modelVars, infos, logged, budget,
                 triggers, lastGood>>

\* Model.getDepotOpenedFilePaths after `opened': a failure is caught and
\* leaves no opened file
OpenedReturn(p) ==
  /\ pc[p] \in {"fetch", "late"}
  /\ local[p].open.st = "cmd"
  /\ \E ok \in BOOLEAN :
       LET paths == IF ok THEN getDepotOpenedFilePaths(
                                 OpenedOutput(local[p].open.sv))
                    ELSE <<>>
           branch == BranchAfterListing(paths, paths)
       IN /\ Settle(p, [local[p] EXCEPT !.open = branch,
                                        !.openedFailed = ~ok], "none")
          /\ issued' = Count("fstat", Len(branch.got))
  /\ UNCHANGED <<server, config, annotations, fetch, op, modelVars, infos, logged,
                 budget, triggers, lastGood>>

\* one fstat chunk of the shelved listing returns; with the last one
\* Model.getShelvedResources builds the shelved resources.  A failed chunk
\* rejects the branch, whose other chunks still return
ShelvedFstatReturn(p) ==
  /\ pc[p] \in {"fetch", "late"}
  /\ local[p].shelved.st \in {"fstat", "rejected"}
  /\ \E i \in DOMAIN local[p].shelved.got, ok \in BOOLEAN :
       /\ ~local[p].shelved.got[i].done
       /\ IF ~ok
          THEN Settle(p, [local[p] EXCEPT !.shelved =
                            [RejectedBranch(@) EXCEPT
                               !.got = GotFailed(@, i)]], "commandFailed")
          ELSE IF local[p].shelved.st = "rejected"
          THEN Settle(p, [local[p] EXCEPT !.shelved.got = GotFailed(@, i)],
                      "none")
          ELSE \E order \in FstatOrders(local[p].shelved.sv,
                              ChunksOf(ShelvedPaths(local[p].shelved.files))[i]) :
                 LET files == local[p].shelved.files
                     got == GotAfter(local[p].shelved.sv, local[p].shelved.got,
                                     ShelvedPaths(files), i, order)
                 IN Settle(p, [local[p] EXCEPT !.shelved =
                         IF AllDone(got)
                         THEN ReadyBranch(getShelvedResources(files,
                                                              FstatInfoOf(got)))
                         ELSE [@ EXCEPT !.got = got]], "none")
  /\ UNCHANGED <<server, config, annotations, fetch, op, modelVars, infos, logged, budget,
                 triggers, issued, lastGood>>

\* one fstat chunk of the opened listing returns; with the last one
\* Model.getDepotOpenedResources builds the open resources, and raises on
\* an entry without a record.  A failed chunk rejects the branch, whose
\* other chunks still return
OpenedFstatReturn(p) ==
  /\ pc[p] \in {"fetch", "late"}
  /\ local[p].open.st \in {"fstat", "rejected"}
  /\ \E i \in DOMAIN local[p].open.got, ok \in BOOLEAN :
       /\ ~local[p].open.got[i].done
       /\ IF ~ok
          THEN Settle(p, [local[p] EXCEPT !.open =
                            [RejectedBranch(@) EXCEPT
                               !.got = GotFailed(@, i)]], "commandFailed")
          ELSE IF local[p].open.st = "rejected"
          THEN Settle(p, [local[p] EXCEPT !.open.got = GotFailed(@, i)],
                      "none")
          ELSE \E order \in FstatOrders(local[p].open.sv,
                              ChunksOf(local[p].open.files)[i]) :
                 LET got == GotAfter(local[p].open.sv, local[p].open.got,
                                     local[p].open.files, i, order)
                 IN IF AllDone(got) /\ OpenedThrows(FstatInfoOf(got))
                    THEN Settle(p, [local[p] EXCEPT !.open =
                                      [RejectedBranch(@) EXCEPT !.got = got]],
                                "threw")
                    ELSE Settle(p, [local[p] EXCEPT !.open =
                              IF AllDone(got)
                              THEN ReadyBranch(getDepotOpenedResources(config,
                                                 FstatInfoOf(got)))
                              ELSE [@ EXCEPT !.got = got]], "none")
  /\ UNCHANGED <<server, config, annotations, fetch, op, modelVars, infos, logged, budget,
                 triggers, issued, lastGood>>

\* cleanAllGroups disposing no group
cleanAllGroupsNoDispose(sc, dg, pg) == sc

\* Model.cleanAllGroups followed by the creation of the new groups
cleanAllGroups(sc, dg, pg) == sc (-) HeldGroups(dg, pg)

\* Model.updateStatus after Promise.all: bucket the resources, replace the
\* groups and fire onDidChange; an undefined resource raises
UpdateStatusFinish(p) ==
  /\ pc[p] = "fetch"
  /\ local[p].shelved.st = "ready"
  /\ local[p].open.st = "ready"
  /\ LET allResources == AllResources(local[p].shelved.resources,
                                      local[p].open.resources)
         dg == <<NewDefaultGroup(allResources)>>
         pg == NewPendingGroups(local[p].changeInfos, allResources)
     IN IF BucketThrows(allResources)
        THEN /\ End(p, "threw")
             /\ UNCHANGED <<modelVars, logged, lastGood>>
        ELSE /\ sourceControl' =
                  cleanAllGroups(sourceControl, defaultGroup, pendingGroups)
                  (+) HeldGroups(dg, pg)
             /\ defaultGroup' = dg
             /\ pendingGroups' = pg
             /\ logged' = logged \cup NotFound(local[p].changeInfos,
                                              local[p].ignoredChangelists,
                                              allResources)
             /\ lastGood' = [any |-> TRUE,
                             groups |-> ResourceGroups(config, dg, pg),
                             full |-> ~local[p].openedFailed,
                             fulls |-> lastGood.fulls
                               + (IF local[p].openedFailed THEN 0 ELSE 1)]
             /\ End(p, IF local[p].openedFailed THEN "degraded" ELSE "updated")
  /\ UNCHANGED <<server, config, annotations, fetch, op, infos, budget, triggers, issued>>

\* Model.ResourceGroups is read and disposes a group: the group leaves
\* _sourceControl (a read that disposes nothing changes nothing)
GetResourceGroups ==
  /\ DisposeHidden(config, pendingGroups) # pendingGroups
  /\ pendingGroups' = DisposeHidden(config, pendingGroups)
  /\ sourceControl' =
       sourceControl (-) (HeldGroups(<<>>, pendingGroups)
                          (-) HeldGroups(<<>>, pendingGroups'))
  /\ UNCHANGED <<server, config, annotations, fetch, op, defaultGroup, infos,
                 logged, pc, local, outcome, budget, triggers, issued,
                 lastGood>>

Step(p) ==
  \/ Refresh(p)
  \/ RefreshLoggedIn(p)
  \/ UpdateInfoReturn(p)
  \/ UpdateStatusLoggedIn(p)
  \/ ChangesReturn(p)
  \/ DescribeReturn(p)
  \/ OpenedReturn(p)
  \/ ShelvedFstatReturn(p)
  \/ OpenedFstatReturn(p)
  \/ UpdateStatusFinish(p)

\* the Model after construction, before the first Refresh
InitModel ==
  /\ defaultGroup = <<>>
  /\ pendingGroups = <<>>
  /\ sourceControl = EmptyBag
  /\ infos = <<>>
  /\ logged = {}
  /\ pc = [p \in Callers |-> "idle"]
  /\ local = [p \in Callers |-> NoLocal]
  /\ outcome = [p \in Callers |-> "none"]
  /\ triggers = 0
  /\ issued = NoIssued
  /\ lastGood = [any |-> FALSE, groups |-> <<>>, full |-> FALSE, fulls |-> 0]

\* no call of getFstatInfoForFiles on its own
NoFetch == [st |-> "none", files |-> <<>>, got |-> <<>>, result |-> <<>>,
            i |-> 0]

\* no changelist operation called
\* the documents annotate is called on
Uris == {"u1", "u2"}

\* the annotate calls made in one behaviour
MaxAnnotate == 3

\* no provider constructed, nothing registered, no annotate call under way
NoAnnotations ==
  [byUri |-> [u \in Uris |-> 0], providers |-> <<>>,
   calls |-> [p \in Callers |-> [st |-> "idle", uri |-> "none"]],
   left |-> MaxAnnotate]

NoOp == [st |-> "none", kind |-> "none", isGroup |-> FALSE, id |-> <<>>,
         flag |-> FALSE, needRefresh |-> FALSE, events |-> <<>>,
         result |-> "none", value |-> <<>>, desc |-> <<>>, spec |-> <<>>,
         got |-> <<>>]

\* one Refresh call, against any server state and configuration
Init ==
  /\ server \in Servers
  /\ config \in Configs
  /\ budget = 1
  /\ fetch = NoFetch
  /\ op = NoOp
  /\ InitModel
  /\ annotations = NoAnnotations

\* one Refresh call, and reads of the groups
Next == Step(1) \/ GetResourceGroups

Spec == Init /\ [][Next]_vars

\* the server states of the concurrent runs: at most one pending
\* changelist, every file recorded and inside the workspace
ConcServers ==
  {sv \in Servers :
     /\ Len(sv.changelists) <= 1
     /\ \A i \in DOMAIN sv.opened : HasRecord(sv, sv.opened[i].depotPath)
     /\ sv.outside = {}}

\* the configurations of the concurrent runs: the installed settings, with
\* any chunk size
ConcConfigs ==
  {[DefaultConfig EXCEPT !.maxFilePerCommand = n] : n \in 1..MaxChunk}

\* up to MaxRefreshes Refresh calls by two callers, overlapping or not
InitConc ==
  /\ server \in ConcServers
  /\ config \in ConcConfigs
  /\ budget = MaxRefreshes
  /\ fetch = NoFetch
  /\ op = NoOp
  /\ InitModel
  /\ annotations = NoAnnotations

NextConc == \E p \in Callers : Step(p)

SpecConc == InitConc /\ [][NextConc]_vars

(***************************************************************************)
(* Two Refresh calls while the server state changes                        *)
(***************************************************************************)
\* the place of a changelist in the list of the server (0 names the default
\* one): the default changelist stands after defaultAt pending ones, and a
\* changelist that `changes' does not list stands after the listed ones
ListPlace(sv, ch) ==
  IF ch = 0 THEN 2 * sv.defaultAt + 1
  ELSE IF \E i \in DOMAIN sv.changelists : sv.changelists[i].chnum = ch
  THEN 2 * (CHOOSE i \in DOMAIN sv.changelists : sv.changelists[i].chnum = ch)
  ELSE 2 * Len(sv.changelists) + 2

\* StubPerforceService.opened lists the files changelist by changelist, in
\* the order of the server's list: the opened files stand in that order
InListOrder(sv) ==
  \A i, j \in DOMAIN sv.opened :
     i < j => ListPlace(sv, sv.opened[i].change)
                <= ListPlace(sv, sv.opened[j].change)

\* the opened files once f is opened in the default changelist: f is the
\* last file of the default changelist, before the files of the
\* changelists that stand after it
OpenedWith(sv, f) ==
  LET before == SelectSeq(sv.opened,
                  LAMBDA o : ListPlace(sv, o.change) <= ListPlace(sv, 0))
      after == SelectSeq(sv.opened,
                 LAMBDA o : ListPlace(sv, o.change) > ListPlace(sv, 0))
  IN before \o <<[depotPath |-> f, change |-> 0]>> \o after

\* a file is opened in the default changelist by the user (`p4 edit')
ServerChanges ==
  /\ \E f \in Paths :
       /\ \A i \in DOMAIN server.opened : server.opened[i].depotPath # f
       /\ \A i \in DOMAIN server.changelists :
            f \notin Range(server.changelists[i].shelvedFiles)
       /\ Len(server.opened)
            + SumLen([i \in 1..Len(server.changelists) |->
                        server.changelists[i].shelvedFiles]) < MaxFiles
       /\ server' = [server EXCEPT !.opened = OpenedWith(server, f)]
  /\ UNCHANGED <<config, annotations, fetch, op, refreshVars>>

\* caller 1 calls Refresh once, and caller 2 calls it once after that call
\* of caller 1 was made
StepInTurn(p) ==
  /\ Step(p)
  /\ pc[p] = "idle" =>
       /\ outcome[p] = "none"
       /\ p = 2 => outcome[1] # "none"

\* the server states of these runs: no shelved file, and the opened files
\* in the order of the changelists that hold them
ChangeServers ==
  {sv \in ConcServers :
     /\ \A i \in DOMAIN sv.changelists : sv.changelists[i].shelvedFiles = <<>>
     /\ InListOrder(sv)}

InitChange ==
  /\ server \in ChangeServers
  /\ config \in ConcConfigs
  /\ budget = MaxRefreshes
  /\ fetch = NoFetch
  /\ op = NoOp
  /\ InitModel
  /\ annotations = NoAnnotations

NextChange == ServerChanges \/ \E p \in Callers : StepInTurn(p)

SpecChange == InitChange /\ [][NextChange]_vars

(***************************************************************************)
(* One Refresh call against the servers of the concurrent runs             *)
(***************************************************************************)
InitOne ==
  /\ server \in ConcServers
  /\ config \in ConcConfigs
  /\ budget = 1
  /\ fetch = NoFetch
  /\ op = NoOp
  /\ InitModel
  /\ annotations = NoAnnotations

NextOne == Step(1)

SpecOne == InitOne /\ [][NextOne]_vars

(***************************************************************************)
(* Model.getFstatInfoForFiles on its own                                   *)
(***************************************************************************)
FetchPaths == Paths \cup {<<"/", "/", "c">>}

\* the path lists, repetitions included, of length at most n
RECURSIVE PathLists(_)
PathLists(n) ==
  IF n = 0 THEN {<<>>}
  ELSE PathLists(n - 1)
       \cup {Append(l, f) : l \in {m \in PathLists(n - 1) : Len(m) = n - 1},
                            f \in FetchPaths}

\* getFstatInfoForFiles up to its await: the list is split and one fstat
\* per chunk is executed
FetchCall ==
  /\ fetch.st = "called"
  /\ fetch' = [fetch EXCEPT
       !.st = "waiting",
       !.got = [i \in 1..Len(ChunksOf(fetch.files)) |-> Pending]]
  /\ UNCHANGED <<server, config, annotations, op, refreshVars>>

\* a failed chunk taken for a chunk without output: the fetch goes on
FetchChunkReturnSwallowing ==
  /\ fetch.st \in {"waiting", "rejected"}
  /\ \E i \in DOMAIN fetch.got, ok \in BOOLEAN :
       /\ ~fetch.got[i].done
       /\ IF ok
          THEN \E order \in FstatOrders(server, ChunksOf(fetch.files)[i]) :
                 fetch' = [fetch EXCEPT
                   !.got = GotAfter(server, fetch.got, fetch.files, i, order)]
          ELSE fetch' = [fetch EXCEPT !.got = GotFailed(fetch.got, i)]
  /\ UNCHANGED <<server, config, annotations, op, refreshVars>>

\* one fstat chunk returns, in any order of the chunks and with its
\* records in any order; a failed chunk rejects the fetch, whose other
\* chunks still return
FetchChunkReturn ==
  /\ fetch.st \in {"waiting", "rejected"}
  /\ \E i \in DOMAIN fetch.got, ok \in BOOLEAN :
       /\ ~fetch.got[i].done
       /\ IF ok
          THEN \E order \in FstatOrders(server, ChunksOf(fetch.files)[i]) :
                 fetch' = [fetch EXCEPT
                   !.got = GotAfter(server, fetch.got, fetch.files, i, order)]
          ELSE fetch' = [fetch EXCEPT !.st = "rejected",
                                      !.got = GotFailed(fetch.got, i)]
  /\ UNCHANGED <<server, config, annotations, op, refreshVars>>

\* getFstatInfoForFiles after Promise.all: the chunk results are
\* concatenated in chunk order
FetchJoin ==
  /\ fetch.st = "waiting"
  /\ AllDone(fetch.got)
  /\ fetch' = [fetch EXCEPT
       !.st = "done", !.got = <<>>, !.result = FstatInfoOf(fetch.got)]
  /\ UNCHANGED <<server, config, annotations, op, refreshVars>>

\* a fetch of any path list, with any chunk size and any files opened;
\* the paths that are not opened have no record
InitFetch ==
  /\ \E ol \in OpenedLists :
       server = [changelists |-> <<>>, opened |-> ol, defaultAt |-> 0,
                 outside |-> {}]
  /\ config \in ConcConfigs
  /\ budget = 0
  /\ op = NoOp
  /\ fetch \in {[NoFetch EXCEPT !.st = "called", !.files = l] :
                  l \in PathLists(MaxFetch)}
  /\ InitModel
  /\ annotations = NoAnnotations

NextFetch == FetchCall \/ FetchChunkReturn \/ FetchJoin

SpecFetch == InitFetch /\ [][NextFetch]_vars

\* C5: for every path list and every chunk size of at least one, the
\* batched fstat fetch returns a list as long as the path list whose entry
\* i is the record with depotFile = paths[i], or undefined when fstat
\* printed no record for paths[i], whatever order the records of a chunk
\* were printed in and whatever order the chunks returned in
C5_FetchAligned ==
  fetch.st = "done" =>
     /\ Len(fetch.result) = Len(fetch.files)
     /\ \A i \in DOMAIN fetch.files :
          IF ~HasRecord(server, fetch.files[i])
          THEN ~fetch.result[i].defined
          ELSE /\ fetch.result[i].defined
               /\ Field(fetch.result[i], "depotFile") = fetch.files[i]
               /\ fetch.result[i].map
                    = LineMap(FstatSection(server, fetch.files[i]), EmptyMap)

\* a completed fetch of a list spanning a full chunk and a partial one,
\* with a repeated path, a path without a record and a path with one
C5_Witness ==
  /\ fetch.st = "done"
  /\ Len(fetch.files) = config.maxFilePerCommand + 1
  /\ config.maxFilePerCommand = 2
  /\ \E i, j \in DOMAIN fetch.files : i < j /\ fetch.files[i] = fetch.files[j]
  /\ \E i \in DOMAIN fetch.result : ~fetch.result[i].defined
  /\ \E i \in DOMAIN fetch.result : fetch.result[i].defined

\* completed fetches of a list shorter than a chunk and of one exactly as
\* long as a chunk
C5_WitnessShort ==
  /\ fetch.st = "done"
  /\ Len(fetch.files) = 1
  /\ config.maxFilePerCommand = 2
  /\ fetch.result[1].defined

C5_WitnessEqual ==
  /\ fetch.st = "done"
  /\ Len(fetch.files) = config.maxFilePerCommand
  /\ config.maxFilePerCommand = 2
  /\ fetch.files[1] # fetch.files[2]
  /\ \A i \in DOMAIN fetch.result : fetch.result[i].defined

(***************************************************************************)
(* The changelist operations of the Model: ShelveChangelist,               *)
(* UnshelveChangelist, DeleteShelvedChangelist and Revert                  *)
(***************************************************************************)
PendingStr == <<"p", "e", "n", "d", "i", "n", "g">>

\* id.indexOf(":"): the position of the first colon, counted from 1, or 0
RECURSIVE IndexOfColon(_, _)
IndexOfColon(id, i) ==
  IF i > Len(id) THEN 0
  ELSE IF id[i] = ":" THEN i ELSE IndexOfColon(id, i + 1)

\* the digits of the id
ChnumOfIdDigits(id) == SelectSeq(id, IsDigit)

\* id.substr(id.indexOf(":") + 1)
ChnumOfId(id) == SubSeq(id, IndexOfColon(id, 1) + 1, Len(id))

\* one thing an operation did that the user or the server can see
Ev(e, name, text) == [e |-> e, name |-> name, text |-> text]

\* Utils.runCommand(uri, name, ..., args) is called
Cmd(name, args) == Ev("cmd", name, args)

\* window.showWarningMessage(message, {modal: true}, yes)
Prompt == Ev("prompt", "showWarningMessage", <<>>)

\* Display.showMessage(name)
Message(name) == Ev("message", name, <<>>)

\* Display.showImportantError and Display.showError
ImportantError == Ev("importantError", "showImportantError", <<>>)

PlainError == Ev("error", "showError", <<>>)

\* the command `name' settled: resolved (ok) or rejected
Settled(name, ok) == Ev("settled", name, IF ok THEN <<"ok">> ELSE <<"failed">>)

\* the answer to the confirmation: the yes button or a dismissal
Picked(yes) == Ev("picked", "showWarningMessage",
                  IF yes THEN <<"yes">> ELSE <<>>)

\* this.Refresh() is called
RefreshCalled == Ev("refresh", "Refresh", <<>>)

\* the arguments the operations build
ShelveArgs(chnum) == <<"-", "f", " ", "-", "c", " ">> \o chnum

QuietRevertArgs(chnum) == <<"-", "c", " ">> \o chnum \o <<" ", "/", "/", ".", ".", ".">>

UnshelveArgs(chnum) == <<"-", "f", " ", "-", "s", " ">> \o chnum \o <<" ", "-", "c", " ">> \o chnum

DeleteShelvedArgs(chnum) == <<"-", "d", " ", "-", "c", " ">> \o chnum

ChangeDeleteArgs(chnum) == <<"-", "d", " ">> \o chnum

UnchangedFlag == <<"-", "a", " ">>

\* the group ids and the resource an operation can be called on
GroupIds ==
  {DefaultStr} \cup {PendingIdPrefix \o NumToString(server.changelists[k].chnum) :
                       k \in DOMAIN server.changelists}

\* an operation has been called and has not settled
OpCalled(kind, st, isGroup, id, flag, events) ==
  [NoOp EXCEPT !.st = st, !.kind = kind, !.isGroup = isGroup, !.id = id,
               !.flag = flag, !.events = events, !.result = "running"]

\* the operation comes to its end without a Refresh; its promise settles
\* then, unless it was settled before by a call that was not awaited
OpEnds(events, result) ==
  /\ op' = [op EXCEPT !.st = "done", !.events = events,
                      !.result = IF @ = "running" THEN result ELSE @]
  /\ UNCHANGED <<server, config, annotations, fetch, refreshVars>>

\* the operation calls this.Refresh(), which runs up to its first await,
\* and settles
OpEndsRefreshing(events) ==
  /\ op' = [op EXCEPT !.st = "done", !.events = events,
                      !.result = "resolved"]
  /\ RefreshStart(1)

\* the operation goes on to its next await
OpGoes(st, events) ==
  /\ op' = [op EXCEPT !.st = st, !.events = events]
  /\ UNCHANGED <<server, config, annotations, fetch, refreshVars>>

\* the operation starts a call it does not await and returns: its promise
\* is resolved while that call goes on
OpGoesResolved(st, events) ==
  /\ op' = [op EXCEPT !.st = st, !.events = events, !.result = "resolved"]
  /\ UNCHANGED <<server, config, annotations, fetch, refreshVars>>

\* Model.ShelveChangelist up to its first await
ShelveChangelist ==
  /\ op.st = "none"
  /\ \E id \in GroupIds, revert \in BOOLEAN :
       IF ChnumOfId(id) = DefaultStr
       THEN /\ op' = [OpCalled("ShelveChangelist", "done", TRUE, id, revert, <<>>)
                        EXCEPT !.result = "rejected"]
            /\ UNCHANGED <<server, config, annotations, fetch, refreshVars>>
       ELSE /\ op' = OpCalled("ShelveChangelist", "shelve", TRUE, id, revert,
                              <<Cmd("shelve", ShelveArgs(ChnumOfId(id)))>>)
            /\ UNCHANGED <<server, config, annotations, fetch, refreshVars>>

\* ShelveChangelist calling Refresh only when `shelve' succeeded
ShelveReturnQuietFailure ==
  /\ op.st = "shelve"
  /\ \E ok \in BOOLEAN :
       IF ~ok
       THEN OpEnds(op.events \o <<Settled("shelve", ok), ImportantError>>,
                   "resolved")
       ELSE IF op.flag
            THEN OpGoes("shelveRevert",
                   op.events \o <<Settled("shelve", ok),
                     Cmd("revert", QuietRevertArgs(ChnumOfId(op.id)))>>)
            ELSE OpEndsRefreshing(op.events
                   \o <<Settled("shelve", ok), Message("Changelist shelved"),
                        RefreshCalled>>)

\* ShelveChangelist after `shelve': QuietlyRevertChangelist when asked,
\* else the message; the error when it failed; then Refresh
ShelveReturn ==
  /\ op.st = "shelve"
  /\ \E ok \in BOOLEAN :
       IF ~ok
       THEN OpEndsRefreshing(op.events
              \o <<Settled("shelve", ok), ImportantError, RefreshCalled>>)
       ELSE IF op.flag
            THEN OpGoes("shelveRevert",
                   op.events \o <<Settled("shelve", ok),
                     Cmd("revert", QuietRevertArgs(ChnumOfId(op.id)))>>)
            ELSE OpEndsRefreshing(op.events
                   \o <<Settled("shelve", ok), Message("Changelist shelved"),
                        RefreshCalled>>)

\* ShelveChangelist after the `revert' of QuietlyRevertChangelist
ShelveRevertReturn ==
  /\ op.st = "shelveRevert"
  /\ \E ok \in BOOLEAN :
       IF ok
       THEN OpEndsRefreshing(op.events
              \o <<Settled("revert", ok), Message("Changelist shelved"),
                   RefreshCalled>>)
       ELSE OpEndsRefreshing(op.events
              \o <<Settled("revert", ok), ImportantError, RefreshCalled>>)

\* Model.UnshelveChangelist up to its first await
UnshelveChangelist ==
  /\ op.st = "none"
  /\ \E id \in GroupIds :
       IF ChnumOfId(id) = DefaultStr
       THEN /\ op' = [OpCalled("UnshelveChangelist", "done", TRUE, id, FALSE, <<>>)
                        EXCEPT !.result = "rejected"]
            /\ UNCHANGED <<server, config, annotations, fetch, refreshVars>>
       ELSE /\ op' = OpCalled("UnshelveChangelist", "unshelve", TRUE, id, FALSE,
                              <<Cmd("unshelve", UnshelveArgs(ChnumOfId(id)))>>)
            /\ UNCHANGED <<server, config, annotations, fetch, refreshVars>>

\* UnshelveChangelist calling Refresh whether or not `unshelve' succeeded
UnshelveReturnAlwaysRefresh ==
  /\ op.st = "unshelve"
  /\ \E ok \in BOOLEAN :
       IF ok
       THEN OpEndsRefreshing(op.events
              \o <<Settled("unshelve", ok), RefreshCalled,
                   Message("Changelist unshelved")>>)
       ELSE OpEndsRefreshing(op.events
              \o <<Settled("unshelve", ok), ImportantError, RefreshCalled>>)

\* UnshelveChangelist after `unshelve'
UnshelveReturn ==
  /\ op.st = "unshelve"
  /\ \E ok \in BOOLEAN :
       IF ok
       THEN OpEndsRefreshing(op.events
              \o <<Settled("unshelve", ok), RefreshCalled,
                   Message("Changelist unshelved")>>)
       ELSE OpEnds(op.events \o <<Settled("unshelve", ok), ImportantError>>,
                   "resolved")

\* Model.DeleteShelvedChangelist up to its first await
DeleteShelvedChangelist ==
  /\ op.st = "none"
  /\ \E id \in GroupIds :
       IF ChnumOfId(id) = DefaultStr
       THEN /\ op' = [OpCalled("DeleteShelvedChangelist", "done", TRUE, id, FALSE, <<>>)
                        EXCEPT !.result = "rejected"]
            /\ UNCHANGED <<server, config, annotations, fetch, refreshVars>>
       ELSE /\ op' = OpCalled("DeleteShelvedChangelist", "deletePrompt", TRUE, id, FALSE, <<Prompt>>)
            /\ UNCHANGED <<server, config, annotations, fetch, refreshVars>>

\* DeleteShelvedChangelist after the confirmation
DeleteShelvedPick ==
  /\ op.st = "deletePrompt"
  /\ \E yes \in BOOLEAN :
       IF yes
       THEN OpGoes("deleteShelved",
              op.events \o <<Picked(yes),
                Cmd("shelve", DeleteShelvedArgs(ChnumOfId(op.id)))>>)
       ELSE OpEnds(Append(op.events, Picked(yes)), "resolved")

\* DeleteShelvedChangelist after `shelve -d'
DeleteShelvedReturn ==
  /\ op.st = "deleteShelved"
  /\ \E ok \in BOOLEAN :
       IF ok
       THEN OpEndsRefreshing(op.events
              \o <<Settled("shelve", ok), RefreshCalled,
                   Message("Shelved files deleted")>>)
       ELSE OpEnds(op.events \o <<Settled("shelve", ok), ImportantError>>,
                   "resolved")

\* the `args' Revert builds
RevertArgs(isGroup, id, unchanged) ==
  (IF unchanged THEN UnchangedFlag ELSE <<>>)
  \o (IF ~isGroup THEN <<>>
      ELSE IF StartsWith(id, DefaultStr) THEN <<"-", "c", " ", "d", "e", "f", "a", "u", "l", "t", " ", "/", "/", ".", ".", ".">>
      ELSE <<"-", "c", " ">> \o ChnumOfId(id) \o <<" ", "/", "/", ".", ".", ".">>)

\* Model.Revert up to its first await: the confirmation, or with
\* `unchanged' the revert command at once
Revert ==
  /\ op.st = "none"
  /\ \E isGroup \in BOOLEAN, unchanged \in BOOLEAN :
       \E id \in (IF isGroup THEN GroupIds ELSE {<<>>}) :
         IF isGroup /\ ~StartsWith(id, DefaultStr) /\ ~StartsWith(id, PendingStr)
         THEN /\ op' = [OpCalled("Revert", "done", isGroup, id, unchanged, <<>>)
                          EXCEPT !.result = "resolved"]
              /\ UNCHANGED <<server, config, annotations, fetch, refreshVars>>
         ELSE /\ op' = IF unchanged
                       THEN OpCalled("Revert", "revert", isGroup, id, unchanged,
                              <<Cmd("revert", RevertArgs(isGroup, id, unchanged))>>)
                       ELSE OpCalled("Revert", "revertPrompt", isGroup, id, unchanged,
                                     <<Prompt>>)
              /\ UNCHANGED <<server, config, annotations, fetch, refreshVars>>

\* Revert going on whatever the answer to the confirmation
RevertPickAnyAnswer ==
  /\ op.st = "revertPrompt"
  /\ \E yes \in BOOLEAN :
       OpGoes("revert",
         op.events \o <<Picked(yes),
           Cmd("revert", RevertArgs(op.isGroup, op.id, op.flag))>>)

\* Revert after the confirmation
RevertPick ==
  /\ op.st = "revertPrompt"
  /\ \E yes \in BOOLEAN :
       IF yes
       THEN OpGoes("revert",
              op.events \o <<Picked(yes),
                Cmd("revert", RevertArgs(op.isGroup, op.id, op.flag))>>)
       ELSE OpEnds(Append(op.events, Picked(yes)), "resolved")

\* Revert deleting the changelist of a pending group only when the revert
\* succeeded
RevertReturnDeleteOnSuccess ==
  /\ op.st = "revert"
  /\ \E ok \in BOOLEAN :
       LET events == op.events \o <<Settled("revert", ok)>>
                       \o (IF ok THEN <<>> ELSE <<PlainError>>)
       IN IF ok /\ op.isGroup /\ StartsWith(op.id, PendingStr)
          THEN /\ op' = [op EXCEPT
                    !.st = "revertDelete", !.needRefresh = ok,
                    !.events = Append(events,
                       Cmd("change", ChangeDeleteArgs(ChnumOfId(op.id))))]
               /\ UNCHANGED <<server, config, annotations, fetch, refreshVars>>
          ELSE IF ok
               THEN /\ op' = [op EXCEPT
                         !.st = "done", !.needRefresh = TRUE,
                         !.events = Append(events, RefreshCalled),
                         !.result = "resolved"]
                    /\ RefreshStart(1)
               ELSE OpEnds(events, "resolved")

\* Revert after `revert': a pending group's changelist is deleted next,
\* otherwise Refresh is called when the revert succeeded
RevertReturn ==
  /\ op.st = "revert"
  /\ \E ok \in BOOLEAN :
       LET events == op.events \o <<Settled("revert", ok)>>
                       \o (IF ok THEN <<>> ELSE <<PlainError>>)
       IN IF op.isGroup /\ StartsWith(op.id, PendingStr)
          THEN /\ op' = [op EXCEPT
                    !.st = "revertDelete", !.needRefresh = ok,
                    !.events = Append(events,
                       Cmd("change", ChangeDeleteArgs(ChnumOfId(op.id))))]
               /\ UNCHANGED <<server, config, annotations, fetch, refreshVars>>
          ELSE IF ok
               THEN /\ op' = [op EXCEPT
                         !.st = "done", !.needRefresh = TRUE,
                         !.events = Append(events, RefreshCalled),
                         !.result = "resolved"]
                    /\ RefreshStart(1)
               ELSE OpEnds(events, "resolved")

\* Revert after `change -d'
RevertDeleteReturn ==
  /\ op.st = "revertDelete"
  /\ \E ok \in BOOLEAN :
       LET events == op.events \o <<Settled("change", ok)>>
                       \o (IF ok THEN <<>> ELSE <<PlainError>>)
       IN IF ok \/ op.needRefresh
          THEN /\ op' = [op EXCEPT
                    !.st = "done", !.needRefresh = TRUE,
                    !.events = Append(events, RefreshCalled),
                    !.result = "resolved"]
               /\ RefreshStart(1)
          ELSE OpEnds(events, "resolved")

\* the server states the operations are called against: one pending
\* changelist, every file recorded and inside the workspace
OpsServers == {sv \in ConcServers : Len(sv.changelists) = 1}

InitOps ==
  /\ server \in OpsServers
  /\ config = DefaultConfig
  /\ budget = 1
  /\ fetch = NoFetch
  /\ op = NoOp
  /\ InitModel
  /\ annotations = NoAnnotations

\* the Refresh an operation called goes on
RefreshGoesOn == pc[1] # "idle" /\ Step(1)

NextOps ==
  \/ ShelveChangelist
  \/ ShelveReturn
  \/ ShelveRevertReturn
  \/ UnshelveChangelist
  \/ UnshelveReturn
  \/ DeleteShelvedChangelist
  \/ DeleteShelvedPick
  \/ DeleteShelvedReturn
  \/ Revert
  \/ RevertPick
  \/ RevertReturn
  \/ RevertDeleteReturn
  \/ RefreshGoesOn

SpecOps == InitOps /\ [][NextOps]_vars

(***************************************************************************)
(* Model.ProcessChangelist and Model.SaveToChangelist                      *)
(***************************************************************************)
\* the characters String.prototype.trim removes and \s matches: WhiteSpace
\* (first three lines) and LineTerminator (last line).  A character that
\* has no escape in a string of this module is written by its code point
IsSpace(ch) ==
  ch \in {"\t", "U+000B", "\f", " ", "U+00A0", "U+1680", "U+2000", "U+2001",
          "U+2002", "U+2003", "U+2004", "U+2005", "U+2006", "U+2007", "U+2008",
          "U+2009", "U+200A", "U+202F", "U+205F", "U+3000", "U+FEFF",
          "\n", "\r", "U+2028", "U+2029"}

\* String.prototype.trim: s from its first to its last character that is
\* no space
Trim(s) ==
  IF \A i \in 1..Len(s) : IsSpace(s[i]) THEN <<>>
  ELSE LET first == CHOOSE i \in 1..Len(s) :
                      ~IsSpace(s[i]) /\ \A j \in 1..(i - 1) : IsSpace(s[j])
           tail == CHOOSE k \in 0..(Len(s) - 1) :
                     /\ ~IsSpace(s[Len(s) - k])
                     /\ \A j \in (Len(s) - k + 1)..Len(s) : IsSpace(s[j])
       IN SubSeq(s, first, Len(s) - tail)

\* the places of s where /\n\r?\n/ matches, with the length matched
BlankAt(s, i) ==
  IF i + 1 <= Len(s) /\ s[i] = "\n" /\ s[i + 1] = "\n" THEN 2
  ELSE IF i + 2 <= Len(s) /\ s[i] = "\n" /\ s[i + 1] = "\r"
          /\ s[i + 2] = "\n" THEN 3
  ELSE 0

\* s.split(/\n\r?\n/)
RECURSIVE SplitBlank(_)
SplitBlank(s) ==
  LET at == {i \in 1..Len(s) : BlankAt(s, i) > 0}
  IN IF at = {} THEN <<s>>
     ELSE LET i == CHOOSE i \in at : \A j \in at : i <= j
          IN <<SubSeq(s, 1, i - 1)>>
             \o SplitBlank(SubSeq(s, i + BlankAt(s, i), Len(s)))

\* s.split("\n")
RECURSIVE SplitNewline(_)
SplitNewline(s) ==
  LET at == {i \in 1..Len(s) : s[i] = "\n"}
  IN IF at = {} THEN <<s>>
     ELSE LET i == CHOOSE i \in at : \A j \in at : i <= j
          IN <<SubSeq(s, 1, i - 1)>> \o SplitNewline(SubSeq(s, i + 1, Len(s)))

\* parts.join(sep)
RECURSIVE JoinWith(_, _)
JoinWith(parts, sep) ==
  IF parts = <<>> THEN <<>>
  ELSE IF Len(parts) = 1 THEN parts[1]
  ELSE parts[1] \o sep \o JoinWith(Tail(parts), sep)

\* s.indexOf("#"), counted from 1, or 0
IndexOfHash(s) ==
  LET at == {i \in 1..Len(s) : s[i] = "#"}
  IN IF at = {} THEN 0 ELSE CHOOSE i \in at : \A j \in at : i <= j

BlankSeparator == <<"\n", "\n">>

LineIndent == <<"\n", "\t">>

FilesPrefix == <<"F", "i", "l", "e", "s", ":">>

DescriptionPrefix == <<"D", "e", "s", "c", "r", "i", "p", "t", "i", "o", "n", ":">>

SavedByVSCode == <<"<", "s", "a", "v", "e", "d", " ", "b", "y", " ", "V", "S", "C", "o", "d", "e", ">">>

EnterDescription == <<"<", "e", "n", "t", "e", "r", " ", "d", "e", "s", "c", "r", "i", "p", "t", "i", "o", "n", " ", "h", "e", "r", "e", ">">>

\* changelistHeader: the comment block `change -o' prints first, sixteen
\* lines that each start with "#" and end with a newline
ChangelistHeader ==
  << "#", " ", " ", "C", "h", "a", "n", "g", "e", ":", " ", " ", " ", " ", " ", " ", "T", "h", "e", " ", "c", "h", "a", "n", "g", "e", " ", "n", "u", "m", "b", "e", "r", ".", " ", "'", "n", "e", "w", "'", " ", "o", "n", " ", "a", " ", "n", "e", "w", " ", "c", "h", "a", "n", "g", "e", "l", "i", "s", "t", ".", "\n",
   "#", " ", " ", "D", "a", "t", "e", ":", " ", " ", " ", " ", " ", " ", " ", " ", "T", "h", "e", " ", "d", "a", "t", "e", " ", "t", "h", "i", "s", " ", "s", "p", "e", "c", "i", "f", "i", "c", "a", "t", "i", "o", "n", " ", "w", "a", "s", " ", "l", "a", "s", "t", " ", "m", "o", "d", "i", "f", "i", "e", "d", ".", "\n",
   "#", " ", " ", "C", "l", "i", "e", "n", "t", ":", " ", " ", " ", " ", " ", " ", "T", "h", "e", " ", "c", "l", "i", "e", "n", "t", " ", "o", "n", " ", "w", "h", "i", "c", "h", " ", "t", "h", "e", " ", "c", "h", "a", "n", "g", "e", "l", "i", "s", "t", " ", "w", "a", "s", " ", "c", "r", "e", "a", "t", "e", "d", ".", " ", " ", "R", "e", "a", "d", "-", "o", "n", "l", "y", ".", "\n",
   "#", " ", " ", "U", "s", "e", "r", ":", " ", " ", " ", " ", " ", " ", " ", " ", "T", "h", "e", " ", "u", "s", "e", "r", " ", "w", "h", "o", " ", "c", "r", "e", "a", "t", "e", "d", " ", "t", "h", "e", " ", "c", "h", "a", "n", "g", "e", "l", "i", "s", "t", ".", "\n",
   "#", " ", " ", "S", "t", "a", "t", "u", "s", ":", " ", " ", " ", " ", " ", " ", "E", "i", "t", "h", "e", "r", " ", "'", "p", "e", "n", "d", "i", "n", "g", "'", " ", "o", "r", " ", "'", "s", "u", "b", "m", "i", "t", "t", "e", "d", "'", ".", " ", "R", "e", "a", "d", "-", "o", "n", "l", "y", ".", "\n",
   "#", " ", " ", "T", "y", "p", "e", ":", " ", " ", " ", " ", " ", " ", " ", " ", "E", "i", "t", "h", "e", "r", " ", "'", "p", "u", "b", "l", "i", "c", "'", " ", "o", "r", " ", "'", "r", "e", "s", "t", "r", "i", "c", "t", "e", "d", "'", ".", " ", "D", "e", "f", "a", "u", "l", "t", " ", "i", "s", " ", "'", "p", "u", "b", "l", "i", "c", "'", ".", "\n",
   "#", " ", " ", "D", "e", "s", "c", "r", "i", "p", "t", "i", "o", "n", ":", " ", "C", "o", "m", "m", "e", "n", "t", "s", " ", "a", "b", "o", "u", "t", " ", "t", "h", "e", " ", "c", "h", "a", "n", "g", "e", "l", "i", "s", "t", ".", " ", " ", "R", "e", "q", "u", "i", "r", "e", "d", ".", "\n",
   "#", " ", " ", "I", "m", "p", "o", "r", "t", "e", "d", "B", "y", ":", " ", " ", "T", "h", "e", " ", "u", "s", "e", "r", " ", "w", "h", "o", " ", "f", "e", "t", "c", "h", "e", "d", " ", "o", "r", " ", "p", "u", "s", "h", "e", "d", " ", "t", "h", "i", "s", " ", "c", "h", "a", "n", "g", "e", " ", "t", "o", " ", "t", "h", "i", "s", " ", "s", "e", "r", "v", "e", "r", ".", "\n",
   "#", " ", " ", "I", "d", "e", "n", "t", "i", "t", "y", ":", " ", " ", " ", " ", "I", "d", "e", "n", "t", "i", "f", "i", "e", "r", " ", "f", "o", "r", " ", "t", "h", "i", "s", " ", "c", "h", "a", "n", "g", "e", ".", "\n",
   "#", " ", " ", "J", "o", "b", "s", ":", " ", " ", " ", " ", " ", " ", " ", " ", "W", "h", "a", "t", " ", "o", "p", "e", "n", "e", "d", " ", "j", "o", "b", "s", " ", "a", "r", "e", " ", "t", "o", " ", "b", "e", " ", "c", "l", "o", "s", "e", "d", " ", "b", "y", " ", "t", "h", "i", "s", " ", "c", "h", "a", "n", "g", "e", "l", "i", "s", "t", ".", "\n",
   "#", " ", " ", " ", " ", " ", " ", " ", " ", " ", " ", " ", " ", " ", " ", " ", "Y", "o", "u", " ", "m", "a", "y", " ", "d", "e", "l", "e", "t", "e", " ", "j", "o", "b", "s", " ", "f", "r", "o", "m", " ", "t", "h", "i", "s", " ", "l", "i", "s", "t", ".", " ", " ", "(", "N", "e", "w", " ", "c", "h", "a", "n", "g", "e", "l", "i", "s", "t", "s", " ", "o", "n", "l", "y", ".", ")", "\n",
   "#", " ", " ", "S", "t", "r", "e", "a", "m", ":", " ", " ", " ", " ", " ", " ", "W", "h", "a", "t", " ", "o", "p", "e", "n", "e", "d", " ", "s", "t", "r", "e", "a", "m", " ", "i", "s", " ", "t", "o", " ", "b", "e", " ", "a", "d", "d", "e", "d", " ", "t", "o", " ", "t", "h", "i", "s", " ", "c", "h", "a", "n", "g", "e", "l", "i", "s", "t", ".", "\n",
   "#", " ", " ", " ", " ", " ", " ", " ", " ", " ", " ", " ", " ", " ", " ", " ", "Y", "o", "u", " ", "m", "a", "y", " ", "r", "e", "m", "o", "v", "e", " ", "a", "n", " ", "o", "p", "e", "n", "e", "d", " ", "s", "t", "r", "e", "a", "m", " ", "f", "r", "o", "m", " ", "t", "h", "i", "s", " ", "l", "i", "s", "t", ".", "\n",
   "#", " ", " ", "F", "i", "l", "e", "s", ":", " ", " ", " ", " ", " ", " ", " ", "W", "h", "a", "t", " ", "o", "p", "e", "n", "e", "d", " ", "f", "i", "l", "e", "s", " ", "f", "r", "o", "m", " ", "t", "h", "e", " ", "d", "e", "f", "a", "u", "l", "t", " ", "c", "h", "a", "n", "g", "e", "l", "i", "s", "t", " ", "a", "r", "e", " ", "t", "o", " ", "b", "e", " ", "a", "d", "d", "e", "d", "\n",
   "#", " ", " ", " ", " ", " ", " ", " ", " ", " ", " ", " ", " ", " ", " ", " ", "t", "o", " ", "t", "h", "i", "s", " ", "c", "h", "a", "n", "g", "e", "l", "i", "s", "t", ".", " ", " ", "Y", "o", "u", " ", "m", "a", "y", " ", "d", "e", "l", "e", "t", "e", " ", "f", "i", "l", "e", "s", " ", "f", "r", "o", "m", " ", "t", "h", "i", "s", " ", "l", "i", "s", "t", ".", "\n",
   "#", " ", " ", " ", " ", " ", " ", " ", " ", " ", " ", " ", " ", " ", " ", " ", "(", "N", "e", "w", " ", "c", "h", "a", "n", "g", "e", "l", "i", "s", "t", "s", " ", "o", "n", "l", "y", ".", ")", "\n" >>

\* the Files entry of one file
FilesEntry(f, action) == f \o <<"\t", "#", " ">> \o action

\* the opened files of the changelist `change' (<<>>: the default one)
SpecFiles(sv, change) ==
  LET hits == SelectSeq(sv.opened,
                LAMBDA o : ChangeText(o.change)
                             = (IF change = <<>> THEN DefaultStr ELSE change))
  IN [i \in 1..Len(hits) |-> hits[i].depotPath]

\* the changelist `change' exists on the server
SpecExists(sv, change) ==
  \/ change = <<>>
  \/ \E k \in DOMAIN sv.changelists :
       NumToString(sv.changelists[k].chnum) = change

\* `change -o': the spec of the changelist with `body' for its description
ChangeSpecWith(sv, change, body) ==
  ChangelistHeader \o BlankSeparator
  \o <<"C", "h", "a", "n", "g", "e", ":", "\t">> \o (IF change = <<>> THEN <<"n", "e", "w">> ELSE change) \o BlankSeparator
  \o <<"C", "l", "i", "e", "n", "t", ":", "\t", "c", "l", "i">> \o BlankSeparator
  \o <<"U", "s", "e", "r", ":", "\t", "u", "s", "e", "r">> \o BlankSeparator
  \o <<"S", "t", "a", "t", "u", "s", ":", "\t">> \o (IF change = <<>> THEN <<"n", "e", "w">> ELSE <<"p", "e", "n", "d", "i", "n", "g">>)
  \o BlankSeparator
  \o DescriptionPrefix \o LineIndent \o body \o BlankSeparator
  \o (LET files == SpecFiles(sv, change)
      IN IF files = <<>> THEN <<>>
         ELSE FilesPrefix \o LineIndent
              \o JoinWith([i \in 1..Len(files) |->
                             FilesEntry(files[i], EditStr)],
                          LineIndent))

\* `change -o <change>' as the server prints it
ChangeSpecOutput(sv, change) ==
  ChangeSpecWith(sv, change,
    IF change = <<>> THEN EnterDescription
    ELSE LET k == CHOOSE k \in DOMAIN sv.changelists :
                    NumToString(sv.changelists[k].chnum) = change
         IN sv.changelists[k].description)

\* the digits at the start of s
LeadingDigits(s) ==
  LET ns == {n \in 0..Len(s) : \A j \in 1..n : IsDigit(s[j])}
  IN SubSeq(s, 1, CHOOSE n \in ns : \A m \in ns : m <= n)

\* /^#(\d+)\r?\n([^]+)/.exec(description): the number and the rest, or
\* no match
InputMatch(value) ==
  LET digits == IF value # <<>> /\ Head(value) = "#"
                THEN LeadingDigits(Tail(value)) ELSE <<>>
      after == SubSeq(value, Len(digits) + 2, Len(value))
      rest == IF after # <<>> /\ Head(after) = "\r" THEN Tail(after) ELSE after
  IN IF digits # <<>> /\ rest # <<>> /\ Head(rest) = "\n" /\ Len(rest) >= 2
     THEN [matched |-> TRUE, chnum |-> digits, description |-> Tail(rest)]
     ELSE [matched |-> FALSE, chnum |-> <<>>, description |-> value]

\* the `args' of the first command of SaveToChangelist
ChangeOutArgs(existingChangelist) == <<"-", "o", " ">> \o existingChangelist

\* descStr, or its replacement when it is empty
DescStrOf(descStr) == IF descStr = <<>> THEN SavedByVSCode ELSE descStr

\* the Description field SaveToChangelist writes
NewDescriptionField(descStr) ==
  DescriptionPrefix \o LineIndent
  \o JoinWith(SplitNewline(Trim(descStr)), LineIndent)

\* the depot paths SaveToChangelist reads from a Files field
DepotFilesOf(field) ==
  LET list == SplitNewline(SubSeq(field, 9, Len(field)))
  IN [i \in 1..Len(list) |->
        Trim(SubSeq(list[i], 1, IndexOfHash(list[i]) - 1))]

\* the Files field SaveToChangelist writes from the fstat result
NewFilesField(fstatInfo) ==
  LET kept == SelectSeq(fstatInfo,
                LAMBDA info : InWorkspace(Field(info, "clientFile")))
  IN FilesPrefix \o LineIndent
     \o JoinWith([i \in 1..Len(kept) |->
                    FilesEntry(Field(kept[i], "depotFile"),
                               Field(kept[i], "action"))],
                 LineIndent)

\* the fields of the spec
SpecFields(spec) == SplitBlank(Trim(spec))

\* the Files fields of the spec that SaveToChangelist rewrites
RewrittenFiles(cfg, spec) ==
  IF cfg.hideNonWorkspaceFiles
  THEN SelectSeq(SpecFields(spec), LAMBDA f : StartsWith(f, FilesPrefix))
  ELSE <<>>

\* newSpec with the Files fields left out
NewSpecDroppingFiles(cfg, spec, descStr, fstatInfo) ==
  LET fields == SelectSeq(SpecFields(spec),
                  LAMBDA f : ~StartsWith(f, FilesPrefix))
  IN Flatten([i \in 1..Len(fields) |->
       (IF StartsWith(fields[i], DescriptionPrefix)
        THEN NewDescriptionField(descStr)
        ELSE fields[i])
       \o BlankSeparator])

\* newSpec, fstatInfo being the fstat result for the rewritten Files field
NewSpec(cfg, spec, descStr, fstatInfo) ==
  LET fields == SpecFields(spec)
  IN Flatten([i \in 1..Len(fields) |->
       (IF cfg.hideNonWorkspaceFiles /\ StartsWith(fields[i], FilesPrefix)
        THEN NewFilesField(fstatInfo)
        ELSE IF StartsWith(fields[i], DescriptionPrefix)
             THEN NewDescriptionField(descStr)
             ELSE fields[i])
       \o BlankSeparator])

\* the texts of the input box
InputBoxValues ==
  {<<>>, <<"m">>, <<"#", "1", "3">>, <<"#", "1", "3", "\n", "m">>, <<"#", "1", "3", "\n", "m", "\n", "k">>, <<"#", "2", "\n", "m">>}

\* Model.ProcessChangelist and SaveToChangelist up to the first await:
\* `change -o' is executed
ProcessChangelist ==
  /\ op.st = "none"
  /\ \E value \in InputBoxValues :
       LET m == InputMatch(value)
       IN op' = [OpCalled("ProcessChangelist", "saveSpec", FALSE, m.chnum,
                          m.matched,
                          <<Cmd("change", ChangeOutArgs(m.chnum))>>)
                   EXCEPT !.value = value, !.desc = DescStrOf(m.description)]
  /\ UNCHANGED <<server, config, annotations, fetch, refreshVars>>

\* the change -i command is executed with newSpec for its input
SaveSends(events, fstatInfo) ==
  /\ op' = [op EXCEPT
       !.st = "saveInput", !.got = <<>>,
       !.events = Append(events,
          Ev("input", "change", NewSpec(config, op.spec, op.desc, fstatInfo)))]
  /\ UNCHANGED <<server, config, annotations, fetch, refreshVars>>

\* SaveToChangelist after `change -o': the spec is rewritten field by
\* field; a Files field to rewrite starts the fstat fetch of its files
SaveSpecReturn ==
  /\ op.st = "saveSpec"
  /\ \E ok \in {b \in BOOLEAN : b => SpecExists(server, op.id)} :
       IF ~ok
       THEN OpEnds(Append(op.events, Settled("change", ok)), "rejected")
       ELSE LET spec == ChangeSpecOutput(server, op.id)
                events == Append(op.events, Settled("change", ok))
                files == RewrittenFiles(config, spec)
            IN IF files = <<>>
               THEN /\ op' = [op EXCEPT
                         !.st = "saveInput", !.spec = spec,
                         !.events = Append(events,
                            Ev("input", "change",
                               NewSpec(config, spec, op.desc, <<>>)))]
                    /\ UNCHANGED <<server, config, annotations, fetch, refreshVars>>
               ELSE /\ op' = [op EXCEPT
                         !.st = "saveFstat", !.spec = spec,
                         !.events = events,
                         !.got = [i \in 1..Len(ChunksOf(DepotFilesOf(files[1])))
                                    |-> Pending]]
                    /\ UNCHANGED <<server, config, annotations, fetch, refreshVars>>

\* one fstat chunk of the Files field returns; with the last one the
\* field is written, which raises on a file without a record
SaveFstatReturn ==
  /\ op.st = "saveFstat"
  /\ \E i \in DOMAIN op.got, ok \in BOOLEAN :
       /\ ~op.got[i].done
       /\ LET paths == DepotFilesOf(RewrittenFiles(config, op.spec)[1])
          IN IF ~ok
             THEN OpEnds(op.events, "rejected")
             ELSE \E order \in FstatOrders(server, ChunksOf(paths)[i]) :
                    LET got == GotAfter(server, op.got, paths, i, order)
                    IN IF ~AllDone(got)
                       THEN /\ op' = [op EXCEPT !.got = got]
                            /\ UNCHANGED <<server, config, annotations, fetch, refreshVars>>
                       ELSE IF OpenedThrows(FstatInfoOf(got))
                            THEN OpEnds(op.events, "rejected")
                            ELSE SaveSends(op.events, FstatInfoOf(got))

\* SaveToChangelist after `change -i': Refresh when it succeeded, else the
\* error
SaveInputReturn ==
  /\ op.st = "saveInput"
  /\ \E ok \in BOOLEAN :
       IF ok
       THEN OpEndsRefreshing(op.events
              \o <<Settled("change", ok), RefreshCalled>>)
       ELSE OpEnds(op.events \o <<Settled("change", ok), PlainError>>,
                   "resolved")

\* the server states a changelist is saved against: one pending
\* changelist
SaveServers == {sv \in Servers : Len(sv.changelists) = 1}

SaveConfigs ==
  {[DefaultConfig EXCEPT !.hideNonWorkspaceFiles = h,
                         !.maxFilePerCommand = n] :
     h \in BOOLEAN, n \in 1..MaxChunk}

InitSave ==
  /\ server \in SaveServers
  /\ config \in SaveConfigs
  /\ budget = 1
  /\ fetch = NoFetch
  /\ op = NoOp
  /\ InitModel
  /\ annotations = NoAnnotations

NextSave ==
  \/ ProcessChangelist
  \/ SaveSpecReturn
  \/ SaveFstatReturn
  \/ SaveInputReturn
  \/ RefreshGoesOn

SpecSave == InitSave /\ [][NextSave]_vars

(***************************************************************************)
(* Claims about saving a changelist (specification SpecSave)               *)
(***************************************************************************)
\* the texts given to `change -i' so far
SentInputs ==
  LET es == SelectSeq(op.events, LAMBDA e : e.e = "input")
  IN [i \in 1..Len(es) |-> es[i].text]

\* the args of the `change -o' command of the operation
SpecAsked ==
  LET es == SelectSeq(op.events, LAMBDA e : e.e = "cmd")
  IN es[1].text

\* ProcessChangelist has given `change -i' its input and awaits the command
SaveSent == op.kind = "ProcessChangelist" /\ op.st = "saveInput"

\* the description as the Description field of a spec holds it
Indented(d) == JoinWith(SplitNewline(d), LineIndent)

\* the text has a Files field
HasFilesField(text) ==
  LET fields == SpecFields(text)
  IN \E i \in DOMAIN fields : StartsWith(fields[i], FilesPrefix)

\* the descriptions entered
EnteredDescriptions == {<<"m">>, <<"m", "\n", "k">>}

\* the spec of the changelist with the description d, as it is sent
SpecSentFor(change, d) ==
  Trim(ChangeSpecWith(server, change, Indented(d))) \o BlankSeparator

\* C19: ProcessChangelist on '#<n>' and a description on the following
\* lines reads the spec of changelist n and sends it back with the
\* Description field holding that description and every other field, Files
\* included when hideNonWorkspaceFiles is off, as it was; on a text without
\* the '#<n>' line it sends the spec of the default changelist, as a new
\* changelist, with the text for its description; a spec without a Files
\* field gives an input without a Files field.
C19_SavesDescription ==
  SaveSent =>
    /\ \A d \in EnteredDescriptions :
         /\ \A k \in DOMAIN server.changelists :
              LET n == NumToString(server.changelists[k].chnum)
              IN op.value = <<"#">> \o n \o <<"\n">> \o d
                 => /\ SpecAsked = <<"-", "o", " ">> \o n
                    /\ ~config.hideNonWorkspaceFiles
                       => SentInputs = <<SpecSentFor(n, d)>>
         /\ op.value = d
            => /\ SpecAsked = <<"-", "o", " ">>
               /\ ~config.hideNonWorkspaceFiles
                  => SentInputs = <<SpecSentFor(<<>>, d)>>
    /\ ~HasFilesField(op.spec) => ~HasFilesField(SentInputs[1])

\* reached: the description of a pending changelist with opened files is
\* replaced by two lines, hideNonWorkspaceFiles being off
C19_Witness ==
  /\ SaveSent
  /\ ~config.hideNonWorkspaceFiles
  /\ \E k \in DOMAIN server.changelists :
       op.value = <<"#">> \o NumToString(server.changelists[k].chnum) \o <<"\n", "m", "\n", "k">>
  /\ HasFilesField(op.spec)

\* reached: a new changelist is saved from the default changelist with
\* files
C19_WitnessNew ==
  /\ SaveSent
  /\ ~config.hideNonWorkspaceFiles
  /\ op.value = <<"m">>
  /\ HasFilesField(op.spec)

\* reached: a spec without a Files field is saved, hideNonWorkspaceFiles
\* being on
C19_WitnessNoFiles ==
  /\ SaveSent
  /\ config.hideNonWorkspaceFiles
  /\ ~HasFilesField(op.spec)

(***************************************************************************)
(* Model.ShelveOrUnshelve, called on a resource                            *)
(***************************************************************************)
\* the `change' of the resources the operation can be called on
ResourceChanges ==
  {DefaultStr} \cup {NumToString(server.changelists[k].chnum) :
                       k \in DOMAIN server.changelists}

UnshelveFileArgs(change) == <<"-", "c", " ">> \o change \o <<" ", "-", "s", " ">> \o change

DeleteShelvedFileArgs(change) == <<"-", "d", " ", "-", "c", " ">> \o change

ShelveFileArgs(change) == <<"-", "f", " ", "-", "c", " ">> \o change

\* Model.ShelveOrUnshelve up to its await: `unshelve' for a shelved
\* resource, `shelve -f' for an open one
ShelveOrUnshelve ==
  /\ op.st = "none"
  /\ \E isShelved \in BOOLEAN, change \in ResourceChanges :
       op' = IF isShelved
             THEN OpCalled("ShelveOrUnshelve", "souUnshelve", FALSE, change,
                           TRUE, <<Cmd("unshelve", UnshelveFileArgs(change))>>)
             ELSE OpCalled("ShelveOrUnshelve", "souShelve", FALSE, change,
                           FALSE, <<Cmd("shelve", ShelveFileArgs(change))>>)
  /\ UNCHANGED <<server, config, annotations, fetch, refreshVars>>

\* ShelveOrUnshelve executing `shelve -d' whatever became of `unshelve'
SouUnshelveReturnDeletingAnyway ==
  /\ op.st = "souUnshelve"
  /\ \E ok \in BOOLEAN :
       OpGoesResolved("souDelete",
         op.events \o <<Settled("unshelve", ok)>>
           \o (IF ok THEN <<>> ELSE <<ImportantError>>)
           \o <<Cmd("shelve", DeleteShelvedFileArgs(op.id))>>)

\* ShelveOrUnshelve after `unshelve': `shelve -d' is executed when it
\* succeeded, and not awaited; else the error is shown
SouUnshelveReturn ==
  /\ op.st = "souUnshelve"
  /\ \E ok \in BOOLEAN :
       IF ok
       THEN OpGoesResolved("souDelete",
              op.events \o <<Settled("unshelve", ok),
                Cmd("shelve", DeleteShelvedFileArgs(op.id))>>)
       ELSE OpEnds(op.events \o <<Settled("unshelve", ok), ImportantError>>,
                   "resolved")

\* ShelveOrUnshelve after `shelve -d': Refresh either way
SouDeleteReturn ==
  /\ op.st = "souDelete"
  /\ \E ok \in BOOLEAN :
       OpEndsRefreshing(op.events \o <<Settled("shelve", ok)>>
         \o (IF ok THEN <<>> ELSE <<ImportantError>>)
         \o <<RefreshCalled>>)

\* ShelveOrUnshelve after `shelve -f': Revert is called on the resource
\* when it succeeded, is not awaited and asks for the confirmation; else
\* the error is shown
SouShelveReturn ==
  /\ op.st = "souShelve"
  /\ \E ok \in BOOLEAN :
       IF ok
       THEN OpGoesResolved("revertPrompt",
                   op.events \o <<Settled("shelve", ok), Prompt>>)
       ELSE OpEnds(op.events \o <<Settled("shelve", ok), ImportantError>>,
                   "resolved")

NextShelveFile ==
  \/ ShelveOrUnshelve
  \/ SouUnshelveReturn
  \/ SouDeleteReturn
  \/ SouShelveReturn
  \/ RevertPick
  \/ RevertReturn
  \/ RefreshGoesOn

SpecShelveFile == InitOps /\ [][NextShelveFile]_vars

(***************************************************************************)
(* Model.SubmitDefault and Model.Submit                                    *)
(***************************************************************************)
\* what `change -i' prints: with the count of the files of the new
\* changelist, or without it when the changelist has no file
CreatedOutputs ==
  {<<"C", "h", "a", "n", "g", "e", " ", "9", "9", " ", "c", "r", "e", "a", "t", "e", "d", " ", "w", "i", "t", "h", " ", "1", " ", "o", "p", "e", "n", " ", "f", "i", "l", "e", "(", "s", ")", ".">>, <<"C", "h", "a", "n", "g", "e", " ", "9", "9", " ", "c", "r", "e", "a", "t", "e", "d", ".">>}

CreatedWith == <<"c", "r", "e", "a", "t", "e", "d", " ", "w", "i", "t", "h">>

\* /Change\s(\d+)\screated with/ matches s at position i
CreatedAt(s, i) ==
  LET rest == SubSeq(s, i, Len(s))
      digits == IF Len(rest) >= 7 THEN LeadingDigits(SubSeq(rest, 8, Len(rest)))
                ELSE <<>>
      after == SubSeq(rest, 8 + Len(digits), Len(rest))
  IN /\ StartsWith(rest, <<"C", "h", "a", "n", "g", "e">>)
     /\ Len(rest) >= 7 /\ IsSpace(rest[7])
     /\ digits # <<>>
     /\ after # <<>> /\ IsSpace(after[1])
     /\ StartsWith(Tail(after), CreatedWith)

\* newChangelistNumber: matches[1] of the first match, or undefined
CreatedNumber(createdStr) ==
  LET at == {i \in 1..Len(createdStr) : CreatedAt(createdStr, i)}
  IN IF at = {} THEN UndefinedStr
     ELSE LeadingDigits(SubSeq(createdStr,
            (CHOOSE i \in at : \A j \in at : i <= j) + 7, Len(createdStr)))

\* String(n) for the number parseInt gave
NumberText(n) == IF n = NaN THEN <<"N", "a", "N">> ELSE NumToString(n)

\* the args of Submit for a description and for a changelist number
SubmitDescriptionArgs(descStr) == <<"-", "d", " ", "\"">> \o descStr \o <<"\"">>

SubmitNumberArgs(n) == <<"-", "c", " ">> \o NumberText(n)

OpenedDefaultArgs == <<"-", "c", " ", "d", "e", "f", "a", "u", "l", "t">>

\* SaveToChangelist returned
Returned(value) == Ev("returned", "SaveToChangelist", value)

\* what the user types in the input box: nothing (dismissed), blanks or a
\* description
TypedDescriptions == {UndefinedStr, <<" ">>, <<"\f", "U+00A0">>, <<"m">>}

\* this.Refresh() called while another call may be in flight
RefreshStartAny ==
  \E p \in Callers : (p = 1 \/ pc[1] # "idle") /\ RefreshStart(p)

\* Model.SubmitDefault up to its first await
SubmitDefault ==
  /\ op.st = "none"
  /\ op' = OpCalled("SubmitDefault", "sdLogin", FALSE, <<>>, FALSE, <<>>)
  /\ UNCHANGED <<server, config, annotations, fetch, refreshVars>>

\* SubmitDefault after isLoggedIn: `opened -c default' is executed
SubmitLoggedIn ==
  /\ op.st = "sdLogin"
  /\ \E loggedin \in BOOLEAN :
       IF loggedin
       THEN OpGoes("sdOpened", <<Cmd("opened", OpenedDefaultArgs)>>)
       ELSE OpEnds(op.events, "resolved")

\* SubmitDefault after `opened': the error when it failed or listed no
\* file, else the input box
SubmitOpenedReturn ==
  /\ op.st = "sdOpened"
  /\ \E ok \in BOOLEAN :
       IF ok /\ SpecFiles(server, <<>>) # <<>>
       THEN OpGoes("sdInput", Append(op.events, Settled("opened", ok)))
       ELSE OpEnds(op.events \o <<Settled("opened", ok), PlainError>>,
                   "resolved")

\* SubmitDefault after the input box: the error for no description, else
\* the quick pick
SubmitDescribed ==
  /\ op.st = "sdInput"
  /\ \E descStr \in TypedDescriptions :
       IF descStr = UndefinedStr \/ Trim(descStr) = <<>>
       THEN OpEnds(Append(op.events, PlainError), "resolved")
       ELSE /\ op' = [op EXCEPT !.st = "sdPick", !.desc = descStr]
            /\ UNCHANGED <<server, config, annotations, fetch, refreshVars>>

\* SubmitDefault after the quick pick: Submit with the description, or
\* SaveToChangelist, or nothing.  Only the SaveToChangelist of "Submit"
\* with hideNonWorkspaceFiles is awaited (`flag' is set then); after the
\* other calls SubmitDefault returns at once
SubmitPicked ==
  /\ op.st = "sdPick"
  /\ \E pick \in {"none", "Cancel", "Submit", "Save Changelist"} :
       IF pick \in {"none", "Cancel"}
       THEN OpEnds(op.events, "resolved")
       ELSE IF pick = "Submit" /\ ~config.hideNonWorkspaceFiles
       THEN OpGoesResolved("submit",
              Append(op.events, Cmd("submit", SubmitDescriptionArgs(op.desc))))
       ELSE /\ op' = [op EXCEPT
                 !.st = "saveSpec", !.flag = (pick = "Submit"),
                 !.result = IF pick = "Submit" THEN @ ELSE "resolved",
                 !.events = Append(op.events,
                                   Cmd("change", ChangeOutArgs(<<>>)))]
            /\ UNCHANGED <<server, config, annotations, fetch, refreshVars>>

\* SaveToChangelist after `change -i', called from SubmitDefault: Refresh
\* when it succeeded, else the error; then, when it was awaited for
\* "Submit", Submit(parseInt(changeListNr, 10)) executes `submit' and is
\* not awaited
SubmitSaveReturn ==
  /\ op.st = "saveInput"
  /\ \E ok \in BOOLEAN, createdStr \in CreatedOutputs :
       LET nr == IF ok THEN CreatedNumber(createdStr) ELSE UndefinedStr
           events == op.events \o <<Settled("change", ok)>>
                       \o (IF ok THEN <<RefreshCalled>> ELSE <<PlainError>>)
                       \o <<Returned(nr)>>
       IN /\ op' = IF op.flag
                   THEN [op EXCEPT !.st = "submit", !.result = "resolved",
                           !.events = Append(events,
                              Cmd("submit", SubmitNumberArgs(ParseInt(nr))))]
                   ELSE [op EXCEPT !.st = "done", !.events = events,
                                   !.result = "resolved"]
          /\ IF ok THEN RefreshStartAny
             ELSE UNCHANGED <<server, config, annotations, fetch, refreshVars>>

\* Model.Submit after `submit': the message and Refresh, or the error
SubmitReturn ==
  /\ op.st = "submit"
  /\ \E ok \in BOOLEAN :
       IF ok
       THEN /\ op' = [op EXCEPT !.st = "done", !.result = "resolved",
                 !.events = op.events
                   \o <<Settled("submit", ok), Message("Changelist Submitted"),
                        RefreshCalled>>]
            /\ RefreshStartAny
       ELSE OpEnds(op.events \o <<Settled("submit", ok), PlainError>>,
                   "resolved")

\* the Refresh calls of the operation go on
RefreshesGoOn == \E p \in Callers : pc[p] # "idle" /\ Step(p)

\* the server states a submit is called against: no pending changelist
SubmitServers ==
  {sv \in Servers : sv.changelists = <<>>}

InitSubmit ==
  /\ server \in SubmitServers
  /\ config \in SaveConfigs
  /\ budget = MaxRefreshes
  /\ fetch = NoFetch
  /\ op = NoOp
  /\ InitModel
  /\ annotations = NoAnnotations

NextSubmit ==
  \/ SubmitDefault
  \/ SubmitLoggedIn
  \/ SubmitOpenedReturn
  \/ SubmitDescribed
  \/ SubmitPicked
  \/ SaveSpecReturn
  \/ SaveFstatReturn
  \/ SubmitSaveReturn
  \/ SubmitReturn
  \/ RefreshesGoOn

SpecSubmit == InitSubmit /\ [][NextSubmit]_vars

(***************************************************************************)
(* Claims about the changelist operations (specification SpecOps)          *)
(***************************************************************************)
\* the events of kind e, and the commands named `name', of the operation
EventsOf(e) == SelectSeq(op.events, LAMBDA x : x.e = e)

CommandsOf(name) ==
  SelectSeq(op.events, LAMBDA x : x.e = "cmd" /\ x.name = name)

\* the position of the first event equal to ev, or 0
RECURSIVE IndexOfEvent(_, _)
IndexOfEvent(ev, i) ==
  IF i > Len(op.events) THEN 0
  ELSE IF op.events[i] = ev THEN i ELSE IndexOfEvent(ev, i + 1)

Happened(ev) == IndexOfEvent(ev, 1) > 0

\* no Refresh has been started on the model
NoRefreshStarted == triggers = 0 /\ budget = 1 /\ pc[1] = "idle"

OnDefaultGroup == op.isGroup /\ op.id = DefaultStr

OnPendingGroup == op.isGroup /\ StartsWith(op.id, PendingStr)

\* C13: ShelveChangelist, UnshelveChangelist and DeleteShelvedChangelist
\* called on the default group are rejected without a command, a
\* confirmation, a message or a Refresh
C13_DefaultGuard ==
  (/\ op.kind \in {"ShelveChangelist", "UnshelveChangelist",
                  "DeleteShelvedChangelist"}
   /\ OnDefaultGroup) =>
     /\ op.st = "done"
     /\ op.result = "rejected"
     /\ op.events = <<>>
     /\ NoRefreshStarted

\* DeleteShelvedChangelist was called on the default group
C13_Witness ==
  /\ op.kind = "DeleteShelvedChangelist"
  /\ OnDefaultGroup
  /\ op.result = "rejected"

\* the commands of ShelveChangelist all succeeded
ShelveSucceeded ==
  /\ Happened(Settled("shelve", TRUE))
  /\ op.flag => Happened(Settled("revert", TRUE))

\* C14: a settled ShelveChangelist on a numbered changelist has called
\* Refresh exactly once, as the last thing it did and so after `shelve'
\* settled, whether `shelve' succeeded or failed; it showed `Changelist
\* shelved' once when its commands succeeded and not otherwise, and one
\* important error when a command failed and none otherwise
C14_ShelveRefreshesOnce ==
  (op.kind = "ShelveChangelist" /\ OnPendingGroup /\ op.st = "done") =>
     /\ Len(EventsOf("refresh")) = 1
     /\ op.events[Len(op.events)] = RefreshCalled
     /\ \/ Happened(Settled("shelve", TRUE))
        \/ Happened(Settled("shelve", FALSE))
     /\ ~NoRefreshStarted
     /\ Len(EventsOf("message"))
          = (IF ShelveSucceeded THEN 1 ELSE 0)
     /\ \A i \in DOMAIN EventsOf("message") :
          EventsOf("message")[i] = Message("Changelist shelved")
     /\ Len(EventsOf("importantError"))
          = (IF ShelveSucceeded THEN 0 ELSE 1)

\* ShelveChangelist settled after `shelve' failed
C14_Witness ==
  /\ op.kind = "ShelveChangelist"
  /\ op.st = "done"
  /\ Happened(Settled("shelve", FALSE))
  /\ Happened(RefreshCalled)
  /\ pc[1] # "idle"

\* C15: a settled UnshelveChangelist or DeleteShelvedChangelist has called
\* Refresh (once) exactly when its command succeeded; when the command
\* failed it showed one important error, no message, and called no Refresh
C15_RefreshIffSucceeded ==
  (/\ op.kind \in {"UnshelveChangelist", "DeleteShelvedChangelist"}
   /\ OnPendingGroup
   /\ op.st = "done") =>
     LET name == IF op.kind = "UnshelveChangelist" THEN "unshelve"
                 ELSE "shelve"
     IN /\ Len(EventsOf("refresh"))
             = (IF Happened(Settled(name, TRUE)) THEN 1 ELSE 0)
        /\ NoRefreshStarted <=> ~Happened(Settled(name, TRUE))
        /\ Happened(Settled(name, FALSE)) =>
             /\ Len(EventsOf("importantError")) = 1
             /\ EventsOf("message") = <<>>
             /\ EventsOf("refresh") = <<>>
        /\ Happened(Settled(name, TRUE)) =>
             /\ EventsOf("importantError") = <<>>
             /\ Len(EventsOf("message")) = 1

\* DeleteShelvedChangelist settled after `shelve -d' failed
C15_Witness ==
  /\ op.kind = "DeleteShelvedChangelist"
  /\ op.st = "done"
  /\ Happened(Settled("shelve", FALSE))
  /\ Len(EventsOf("importantError")) = 1
  /\ NoRefreshStarted

\* UnshelveChangelist settled after `unshelve' succeeded
C15_WitnessUnshelved ==
  /\ op.kind = "UnshelveChangelist"
  /\ op.st = "done"
  /\ Happened(Settled("unshelve", TRUE))
  /\ ~NoRefreshStarted

\* the `revert' of the operation settled, either way
RevertSettled ==
  Happened(Settled("revert", TRUE)) \/ Happened(Settled("revert", FALSE))

\* C16: once the revert command of a Revert of a pending group has
\* settled, succeeded or failed, `change -d <n>' has been issued for the
\* group's changelist, after the revert settled; a Revert of the default
\* group or of a file never issues `change'
C16_RevertDeletesChangelist ==
  op.kind = "Revert" =>
     /\ (OnPendingGroup /\ RevertSettled) =>
          /\ CommandsOf("change")
               = <<Cmd("change", ChangeDeleteArgs(ChnumOfId(op.id)))>>
          /\ \E i \in DOMAIN op.events :
               /\ op.events[i].e = "settled"
               /\ op.events[i].name = "revert"
               /\ IndexOfEvent(Cmd("change", ChangeDeleteArgs(ChnumOfId(op.id))), 1)
                    > i
          /\ ChnumOfId(op.id) = NumToString(server.changelists[1].chnum)
     /\ (OnPendingGroup /\ ~RevertSettled) => CommandsOf("change") = <<>>
     /\ ~OnPendingGroup => CommandsOf("change") = <<>>

\* a Revert of a pending group whose revert command failed
C16_Witness ==
  /\ op.kind = "Revert"
  /\ OnPendingGroup
  /\ Happened(Settled("revert", FALSE))
  /\ Len(CommandsOf("change")) = 1

\* a Revert of the default group whose revert command succeeded
C16_WitnessDefault ==
  /\ op.kind = "Revert"
  /\ OnDefaultGroup
  /\ Happened(Settled("revert", TRUE))
  /\ op.st = "done"

\* C17 as claimed: a Revert of a pending group whose changelist has
\* shelved files issues the revert command and never issues `change -d'
C17_KeepsShelvedChangelist ==
  (/\ op.kind = "Revert"
   /\ OnPendingGroup
   /\ server.changelists[1].shelvedFiles # <<>>
   /\ op.st = "done"
   /\ Happened(Picked(TRUE)) \/ op.flag) =>
     /\ Len(CommandsOf("revert")) = 1
     /\ CommandsOf("change") = <<>>

\* C18: a Revert that is not `unchanged' and a DeleteShelvedChangelist
\* issue no command and start no Refresh unless the confirmation was shown
\* and answered with its yes button; a Revert that is `unchanged' shows no
\* confirmation and issues the revert command with -a
C18_ConfirmedFirst ==
  /\ (/\ \/ op.kind = "Revert" /\ ~op.flag
         \/ op.kind = "DeleteShelvedChangelist" /\ ~OnDefaultGroup
      /\ \/ EventsOf("cmd") # <<>>
         \/ EventsOf("refresh") # <<>>
         \/ ~NoRefreshStarted) =>
        /\ op.events[1] = Prompt
        /\ op.events[2] = Picked(TRUE)
        /\ Len(EventsOf("prompt")) = 1
  /\ (op.kind = "Revert" /\ op.flag) =>
        /\ EventsOf("prompt") = <<>>
        /\ op.events[1].e = "cmd"
        /\ op.events[1].name = "revert"
        /\ StartsWith(op.events[1].text, UnchangedFlag)
        /\ Len(CommandsOf("revert")) = 1

\* a Revert whose confirmation was dismissed has settled
C18_Witness ==
  /\ op.kind = "Revert"
  /\ ~op.flag
  /\ op.st = "done"
  /\ op.events = <<Prompt, Picked(FALSE)>>
  /\ NoRefreshStarted

\* a Revert that is `unchanged' has settled after a Refresh
C18_WitnessUnchanged ==
  /\ op.kind = "Revert"
  /\ op.flag
  /\ op.st = "done"
  /\ Happened(RefreshCalled)

(***************************************************************************)
(* Model.splitArray, one action per iteration of its loop                  *)
(***************************************************************************)
\* the values of the maxFilePerCommand setting: a number or unset
ChunkSizes ==
  {[defined |-> FALSE, value |-> 0]}
    \cup {[defined |-> TRUE, value |-> n] : n \in -1..MaxChunk}

\* Array.prototype.slice(begin, end) with begin and end counted from 0
Slice(arr, begin, end) ==
  LET from == IF begin < 0
              THEN (IF Len(arr) + begin < 0 THEN 0 ELSE Len(arr) + begin)
              ELSE (IF begin > Len(arr) THEN Len(arr) ELSE begin)
      to == IF end < 0
            THEN (IF Len(arr) + end < 0 THEN 0 ELSE Len(arr) + end)
            ELSE (IF end > Len(arr) THEN Len(arr) ELSE end)
  IN SubSeq(arr, from + 1, to)

\* splitArray is entered: ret = [] and i = 0
SplitArrayCall ==
  /\ fetch.st = "called"
  /\ fetch' = [fetch EXCEPT !.st = "splitting", !.got = <<>>, !.i = 0]
  /\ UNCHANGED <<server, config, annotations, op, refreshVars>>

\* one iteration: ret.push(arr.slice(i, i + chunkSize)); i += chunkSize.
\* With chunkSize unset, i + chunkSize is NaN: the slice is empty and the
\* test i < arr.length fails next
SplitArrayStep ==
  /\ fetch.st = "splitting"
  /\ fetch.i < Len(fetch.files)
  /\ Len(fetch.got) < MaxSplit
  /\ LET chunkSize == config.maxFilePerCommand
     IN fetch' = IF chunkSize.defined
                 THEN [fetch EXCEPT
                         !.got = Append(@, Slice(fetch.files, fetch.i,
                                                 fetch.i + chunkSize.value)),
                         !.i = @ + chunkSize.value]
                 ELSE [fetch EXCEPT
                         !.got = Append(@, Slice(fetch.files, fetch.i, 0)),
                         !.st = "split"]
  /\ UNCHANGED <<server, config, annotations, op, refreshVars>>

\* the test i < arr.length fails: ret is returned
SplitArrayExit ==
  /\ fetch.st = "splitting"
  /\ fetch.i >= Len(fetch.files)
  /\ fetch' = [fetch EXCEPT !.st = "split"]
  /\ UNCHANGED <<server, config, annotations, op, refreshVars>>

\* splitArray called on any path list with any value of the setting
InitSplit ==
  /\ server = [changelists |-> <<>>, opened |-> <<>>, defaultAt |-> 0,
               outside |-> {}]
  /\ config \in {[DefaultConfig EXCEPT !.maxFilePerCommand = c] :
                   c \in ChunkSizes}
  /\ budget = 0
  /\ op = NoOp
  /\ fetch \in {[NoFetch EXCEPT !.st = "called", !.files = l] :
                  l \in PathLists(MaxFetch)}
  /\ InitModel
  /\ annotations = NoAnnotations

NextSplit == SplitArrayCall \/ SplitArrayStep \/ SplitArrayExit

SpecSplit == InitSplit /\ [][NextSplit]_vars

(***************************************************************************)
(* PerforceContentProvider.provideTextDocumentContent                      *)
(***************************************************************************)
\* the calls: the uri (path "EMPTY" or not, fragment, "depot" and
\* "workspace" in its query, an fsPath or none) and the window (the active
\* editor, workspace folders or none)
ContentRequests ==
  [empty : BOOLEAN,
   fragment : {<<>>, <<"1">>, <<"@", "2">>},
   depot : BOOLEAN,
   workspace : BOOLEAN,
   fsPath : BOOLEAN,
   editor : {"none", "untitled", "file"},
   folders : BOOLEAN]

\* the revision passed to the command
RevisionOf(fragment) ==
  IF fragment # <<>> /\ ~StartsWith(fragment, <<"@">>)
  THEN <<"#">> \o fragment ELSE fragment

\* the executor of the promise throws: no resource for a depot uri, or no
\* workspace to run the command in
ContentThrows(r) ==
  IF r.depot THEN ~r.workspace /\ ~r.folders
  ELSE ~r.fsPath /\ r.editor # "file" /\ ~r.folders

\* provideTextDocumentContent up to its return: the promise is resolved
\* for the path "EMPTY", rejected by a throw of its executor, which the
\* catch turns into the error and "", or left to the command
ProvideTextDocumentContent ==
  /\ op.st = "none"
  /\ \E r \in ContentRequests :
       op' = IF r.empty
             THEN [OpCalled("provideTextDocumentContent", "done", FALSE,
                            <<>>, FALSE, <<Returned(<<>>)>>)
                     EXCEPT !.result = "resolved", !.got = r]
             ELSE IF ContentThrows(r)
             THEN [OpCalled("provideTextDocumentContent", "done", FALSE,
                            <<>>, FALSE, <<PlainError, Returned(<<>>)>>)
                     EXCEPT !.result = "resolved", !.got = r]
             ELSE [OpCalled("provideTextDocumentContent", "contentCmd", FALSE,
                            <<>>, FALSE,
                            <<Cmd("print", RevisionOf(r.fragment))>>)
                     EXCEPT !.got = r]
  /\ UNCHANGED <<server, config, annotations, fetch, refreshVars>>

\* the command settles: .then(resolve) resolves the promise with its
\* output, and has no handler for its rejection, which leaves the promise
\* pending
ContentCommandReturn ==
  /\ op.st = "contentCmd"
  /\ \E ok \in BOOLEAN :
       IF ok
       THEN OpEnds(op.events \o <<Settled("print", ok), Returned(<<"o", "u", "t", "p", "u", "t">>)>>,
                   "resolved")
       ELSE OpGoes("pending", Append(op.events, Settled("print", ok)))

InitContent ==
  /\ server = [changelists |-> <<>>, opened |-> <<>>, defaultAt |-> 0,
               outside |-> {}]
  /\ config = DefaultConfig
  /\ budget = 0
  /\ fetch = NoFetch
  /\ op = NoOp
  /\ InitModel
  /\ annotations = NoAnnotations

NextContent == ProvideTextDocumentContent \/ ContentCommandReturn

\* every settling of a command is delivered
SpecContent == InitContent /\ [][NextContent]_vars /\ WF_vars(NextContent)

(***************************************************************************)
(* AnnotationProvider.annotate and dispose.  A provider is its index in    *)
(* annotations.providers; byUri is the static _annotationsByUri, 0 where   *)
(* the map has no entry.                                                   *)
(***************************************************************************)
\* dispose(): the map entry is deleted only when it is this provider; the
\* decorations and subscriptions of the provider are dropped
Dispose(a, i) ==
  [a EXCEPT !.byUri[a.providers[i].doc] =
               IF a.byUri[a.providers[i].doc] = i THEN 0 ELSE @,
            !.providers[i].disposed = TRUE]

\* annotate(uri) up to its await: the provider registered for the uri, if
\* any, is disposed, then the two perforce commands are started
Annotate(p, uri) ==
  /\ annotations.calls[p].st = "idle"
  /\ annotations.left > 0
  /\ LET existing == annotations.byUri[uri]
         a == IF existing # 0 THEN Dispose(annotations, existing)
              ELSE annotations
     IN annotations' = [a EXCEPT !.calls[p] = [st |-> "awaiting",
                                               uri |-> uri],
                                 !.left = @ - 1]
  /\ UNCHANGED <<server, config, fetch, op, refreshVars>>

\* annotate(uri) after its await: when both commands succeeded a provider
\* is constructed and registered, replacing whatever the map holds; when
\* one failed the call rejects and nothing is constructed
AnnotateReturn(p) ==
  /\ annotations.calls[p].st = "awaiting"
  /\ \E ok \in BOOLEAN :
       LET uri == annotations.calls[p].uri
           provider == Len(annotations.providers) + 1
       IN annotations' =
            IF ok
            THEN [annotations EXCEPT
                    !.providers = Append(@, [doc |-> uri,
                                             disposed |-> FALSE]),
                    !.byUri[uri] = provider,
                    !.calls[p] = [st |-> "idle", uri |-> "none"]]
            ELSE [annotations EXCEPT
                    !.calls[p] = [st |-> "idle", uri |-> "none"]]
  /\ UNCHANGED <<server, config, fetch, op, refreshVars>>

\* checkStillOpen(): the document of a provider was closed, the provider
\* disposes itself
CheckStillOpen(i) ==
  /\ i \in DOMAIN annotations.providers
  /\ ~annotations.providers[i].disposed
  /\ annotations' = Dispose(annotations, i)
  /\ UNCHANGED <<server, config, fetch, op, refreshVars>>

InitAnnotate ==
  /\ server = [changelists |-> <<>>, opened |-> <<>>, defaultAt |-> 0,
               outside |-> {}]
  /\ config = DefaultConfig
  /\ budget = 0
  /\ fetch = NoFetch
  /\ op = NoOp
  /\ InitModel
  /\ annotations = NoAnnotations

NextAnnotate ==
  \/ \E p \in Callers, uri \in Uris : Annotate(p, uri)
  \/ \E p \in Callers : AnnotateReturn(p)
  \/ \E i \in 1..MaxAnnotate : CheckStillOpen(i)

SpecAnnotate == InitAnnotate /\ [][NextAnnotate]_vars

(***************************************************************************)
(* What the server holds, read off its state                               *)
(***************************************************************************)
\* a changelist is ignored when a prefix is configured and its description
\* starts with it
IsIgnored(c) ==
  /\ IsTruthyPrefix(config.ignoredChangelistPrefix)
  /\ StartsWith(c.description, config.ignoredChangelistPrefix.value)

\* the pending changelists that are not ignored, in listing order
Displayed == SelectSeq(server.changelists, LAMBDA c : ~IsIgnored(c))

\* the last Refresh call of caller p ran its reconciliation pass to the end
Completed(p) == pc[p] = "idle" /\ outcome[p] \in {"updated", "degraded"}

\* ... and every command of the pass succeeded
Updated(p) == pc[p] = "idle" /\ outcome[p] = "updated"

\* the groups the model exposes
Exposed == ResourceGroups(config, defaultGroup, pendingGroups)

\* the group the model holds for changelist number n, as a sequence of
\* zero or more groups
GroupsOf(n) ==
  LET hits == SelectSeq(pendingGroups, LAMBDA e : e.chnum = n)
  IN [i \in 1..Len(hits) |-> hits[i].group]

AllGroups == defaultGroup \o [i \in 1..Len(pendingGroups) |-> pendingGroups[i].group]

DepotPaths(rs) == [i \in 1..Len(rs) |-> rs[i].depotPath]

ShelvedIn(g) == SelectSeq(g.resourceStates, LAMBDA r : r.isShelved)

OpenIn(g) == SelectSeq(g.resourceStates, LAMBDA r : ~r.isShelved)

\* the paths opened in changelist ch (0: the default one), in listing order
OpenedPathsOf(ch) ==
  LET hits == SelectSeq(server.opened, LAMBDA o : o.change = ch)
  IN [i \in 1..Len(hits) |-> hits[i].depotPath]

IsSorted(ns, up) ==
  \A i, j \in DOMAIN ns : i < j => IF up THEN ns[i] < ns[j] ELSE ns[i] > ns[j]

(***************************************************************************)
(* Claims about one Refresh (specification Spec)                           *)
(***************************************************************************)
\* C4: after every refresh whose reconciliation pass completed, with
\* hideEmptyChangelists off, the model exposes the default group plus
\* exactly one group per pending changelist that is not ignored, whether
\* or not the changelist or the default group has files
C4_GroupCount ==
  (Completed(1) /\ ~config.hideEmptyChangelists) =>
     /\ Len(Exposed) = Len(Displayed) + 1
     /\ Cardinality({i \in DOMAIN Exposed : Exposed[i].id = DefaultStr}) = 1
     /\ \A k \in DOMAIN Displayed :
          Cardinality({i \in DOMAIN Exposed :
             Exposed[i].id = PendingIdPrefix \o NumToString(Displayed[k].chnum)})
          = 1

\* a completed pass with a changelist that has no file at all, whose group
\* is exposed empty next to an empty default group
C4_Witness ==
  /\ Updated(1)
  /\ ~config.hideEmptyChangelists
  /\ server.opened = <<>>
  /\ Len(Displayed) = 2
  /\ \A k \in DOMAIN Displayed : Displayed[k].shelvedFiles = <<>>
  /\ Len(Exposed) = 3
  /\ \A i \in DOMAIN Exposed : Exposed[i].resourceStates = <<>>

\* C6: after every completed pass, in each group all shelved resources
\* come before all open resources, the shelved ones in the order of the
\* shelved listing of the changelist and the open ones in the order of the
\* opened listing
C6_ShelvedBeforeOpen ==
  Updated(1) =>
     /\ \A i \in DOMAIN AllGroups :
          AllGroups[i].resourceStates
            = ShelvedIn(AllGroups[i]) \o OpenIn(AllGroups[i])
     /\ DepotPaths(OpenIn(defaultGroup[1])) = OpenedPathsOf(0)
     /\ \A k \in DOMAIN server.changelists :
          \A i \in DOMAIN GroupsOf(server.changelists[k].chnum) :
            LET g == GroupsOf(server.changelists[k].chnum)[i]
            IN /\ DepotPaths(OpenIn(g))
                    = OpenedPathsOf(server.changelists[k].chnum)
               /\ ShelvedIn(g) # <<>> =>
                    DepotPaths(ShelvedIn(g)) = server.changelists[k].shelvedFiles

\* a completed pass with a group that holds a shelved and an open resource
C6_Witness ==
  /\ Updated(1)
  /\ \E i \in DOMAIN pendingGroups :
       /\ ShelvedIn(pendingGroups[i].group) # <<>>
       /\ OpenIn(pendingGroups[i].group) # <<>>

\* a completed pass with two open resources in one group
C6_WitnessOrder ==
  /\ Updated(1)
  /\ \E i \in DOMAIN AllGroups : Len(OpenIn(AllGroups[i])) = 2

\* the shelved resources of all groups the model holds
AllShelved ==
  Flatten([i \in 1..Len(AllGroups) |-> ShelvedIn(AllGroups[i])])

\* the number of shelved-file lines `describe' prints for the displayed
\* changelists
ShelvedLineCount ==
  SumLen([k \in 1..Len(Displayed) |-> Displayed[k].shelvedFiles])

\* C7: when a completed pass ran `describe', each shelved-file line gives
\* exactly one shelved resource, held by the group of the changelist whose
\* header precedes the line; a path shelved in two changelists gives one
\* shelved resource in each of the two groups
C7_ShelvedPerChangelist ==
  (Updated(1) /\ ~hideShelvedFiles(config)) =>
     /\ Len(AllShelved) = ShelvedLineCount
     /\ ShelvedIn(defaultGroup[1]) = <<>>
     /\ \A k \in DOMAIN Displayed :
          /\ Len(GroupsOf(Displayed[k].chnum)) = 1
          /\ \A f \in Range(Displayed[k].shelvedFiles) :
               Cardinality({i \in DOMAIN GroupsOf(Displayed[k].chnum)[1].resourceStates :
                  LET r == GroupsOf(Displayed[k].chnum)[1].resourceStates[i]
                  IN /\ r.isShelved
                     /\ r.depotPath = f
                     /\ ParseInt(r.change) = Displayed[k].chnum}) = 1

\* a completed pass with the same path shelved in two changelists, each of
\* the two groups holding its own shelved resource of the path
C7_Witness ==
  /\ Updated(1)
  /\ Len(pendingGroups) = 2
  /\ \E f \in Paths :
       \A i \in {1, 2} :
         /\ DepotPaths(ShelvedIn(pendingGroups[i].group)) = <<f>>
         /\ Len(pendingGroups[i].group.resourceStates) = 1

\* the files opened in an ignored changelist
IgnoredOpened ==
  {server.opened[i].depotPath :
     i \in {j \in DOMAIN server.opened :
              \E k \in DOMAIN server.changelists :
                /\ server.changelists[k].chnum = server.opened[j].change
                /\ IsIgnored(server.changelists[k])}}

\* C8: with a non-empty ignoredChangelistPrefix, after a completed pass
\* the model holds no group for a changelist whose description starts with
\* the prefix and one group for every other pending changelist, no group
\* holds a file opened in an ignored changelist, and no "pending changelist
\* not found" is logged for an ignored changelist
C8_IgnoredPrefix ==
  (Completed(1) /\ IsTruthyPrefix(config.ignoredChangelistPrefix)) =>
     \A k \in DOMAIN server.changelists :
       LET c == server.changelists[k]
       IN IF IsIgnored(c)
          THEN /\ GroupsOf(c.chnum) = <<>>
               /\ c.chnum \notin logged
               /\ \A i \in DOMAIN AllGroups :
                    \A j \in DOMAIN AllGroups[i].resourceStates :
                      /\ AllGroups[i].resourceStates[j].depotPath
                           \in IgnoredOpened
                         => AllGroups[i].resourceStates[j].isShelved
                      /\ AllGroups[i].id
                           # PendingIdPrefix \o NumToString(c.chnum)
          ELSE Len(GroupsOf(c.chnum)) = 1

\* a completed pass with one ignored changelist that has an opened file
\* and one displayed changelist
C8_Witness ==
  /\ Updated(1)
  /\ IsTruthyPrefix(config.ignoredChangelistPrefix)
  /\ IgnoredOpened # {}
  /\ Len(server.changelists) = 2
  /\ Len(pendingGroups) = 1

\* the numbers of the pending groups, in the order the model exposes them
ExposedNumbers == [i \in 1..Len(pendingGroups) |-> pendingGroups[i].chnum]

DisplayedNumbers == [k \in 1..Len(Displayed) |-> Displayed[k].chnum]

\* C9 as claimed: after every completed pass the default group is first
\* and the pending groups follow by increasing number when changelistOrder
\* is ascending and by decreasing number when it is descending, whatever
\* the order `changes' lists the changelists in
C9_SortedAnyListing ==
  Completed(1) =>
     /\ Exposed[1].id = DefaultStr
     /\ IsSorted(ExposedNumbers, config.changelistOrder = "ascending")

\* C9 as amended: after every completed pass the default group is first
\* and the pending groups follow in the order `changes' listed them when
\* changelistOrder is descending and in the reverse of it when ascending;
\* so they decrease (descending) or increase (ascending) by number exactly
\* when `changes' lists the changelists by decreasing number
C9_ListingOrReverse ==
  Completed(1) =>
     /\ Exposed[1].id = DefaultStr
     /\ \A i \in 2..Len(Exposed) : Exposed[i].id # DefaultStr
     /\ ExposedNumbers = IF config.changelistOrder = "ascending"
                         THEN Reverse(DisplayedNumbers)
                         ELSE DisplayedNumbers
     /\ IsSorted(DisplayedNumbers, FALSE) =>
          IsSorted(ExposedNumbers, config.changelistOrder = "ascending")

\* a completed pass with changelistOrder ascending and two changelists
\* listed by decreasing number, exposed by increasing number
C9_Witness ==
  /\ Completed(1)
  /\ config.changelistOrder = "ascending"
  /\ Len(DisplayedNumbers) = 2
  /\ IsSorted(DisplayedNumbers, FALSE)
  /\ Len(Exposed) = 3
  /\ ExposedNumbers = Reverse(DisplayedNumbers)

\* C10 as claimed: after a completed pass, with hideShelvedFiles on no
\* group holds a shelved resource and with hideShelvedFiles off every
\* shelved file of a displayed changelist is a shelved resource of its
\* group, whatever hideNonWorkspaceFiles is
C10_HideShelvedAlone ==
  Updated(1) =>
     IF config.hideShelvedFiles
     THEN AllShelved = <<>>
     ELSE \A k \in DOMAIN Displayed :
            \A i \in DOMAIN GroupsOf(Displayed[k].chnum) :
              DepotPaths(ShelvedIn(GroupsOf(Displayed[k].chnum)[i]))
                = Displayed[k].shelvedFiles

\* the paths opened in changelist ch whose local file lies in a workspace
\* folder, in listing order
InsideOpenedPathsOf(ch) ==
  SelectSeq(OpenedPathsOf(ch), LAMBDA f : InWorkspace(LocalFile(server, f)))

\* C11 as claimed: with hideNonWorkspaceFiles on, a Refresh that is logged
\* in and whose commands all succeed completes, and the open resources of
\* each group are the opened files of its changelist that lie in a
\* workspace folder, in the order of the opened listing
C11_OutsideDropped ==
  (/\ config.hideNonWorkspaceFiles
   /\ \A i \in DOMAIN server.opened :
        HasRecord(server, server.opened[i].depotPath)
   /\ pc[1] = "idle"
   /\ outcome[1] \in {"updated", "threw"}) =>
     /\ outcome[1] = "updated"
     /\ DepotPaths(OpenIn(defaultGroup[1])) = InsideOpenedPathsOf(0)
     /\ \A k \in DOMAIN Displayed :
          \A i \in DOMAIN GroupsOf(Displayed[k].chnum) :
            DepotPaths(OpenIn(GroupsOf(Displayed[k].chnum)[i]))
              = InsideOpenedPathsOf(Displayed[k].chnum)

(***************************************************************************)
(* Claims about overlapping Refresh calls (specification SpecConc)         *)
(***************************************************************************)
\* the open resources of changelist ch (0: the default one) as the server
\* state gives them
OpenResourcesOf(ch) ==
  [i \in 1..Len(OpenedPathsOf(ch)) |->
     Resource(OpenedPathsOf(ch)[i], LocalFile(server, OpenedPathsOf(ch)[i]),
              ChangeText(ch), FALSE, EditStr)]

\* the shelved resources of changelist c as the server state gives them:
\* a shelved file has a local URI only where fstat prints a record for it
ShelvedResourcesOf(c) ==
  [i \in 1..Len(c.shelvedFiles) |->
     Resource(c.shelvedFiles[i],
              IF HasRecord(server, c.shelvedFiles[i])
              THEN LocalFile(server, c.shelvedFiles[i]) ELSE <<>>,
              NumToString(c.chnum), TRUE, EditStr)]

\* the groups of the server state under the installed settings: the
\* default group, then one group per displayed changelist in listing order
GroupsOfServer ==
  <<Group(DefaultStr, DefaultLabel, OpenResourcesOf(0))>>
  \o [k \in 1..Len(Displayed) |->
        Group(PendingIdPrefix \o NumToString(Displayed[k].chnum),
              <<"#">> \o NumToString(Displayed[k].chnum) \o <<":", " ">>
                \o Displayed[k].description,
              ShelvedResourcesOf(Displayed[k])
                \o OpenResourcesOf(Displayed[k].chnum))]

\* the ids of the groups created on the source control and not disposed
LiveIds == {g.id : g \in BagToSet(sourceControl)}

\* C1: once overlapping Refresh calls against one server state have all
\* completed their pass, in whatever interleaving, the model holds one
\* default group and one group per displayed changelist, with the
\* resources of the server state, and the source control shows no other
\* group and no group id twice
C1_NoDuplication ==
  (Quiescent /\ triggers >= 2 /\ \A p \in Callers : Updated(p)) =>
     /\ Exposed = GroupsOfServer
     /\ AllGroups = GroupsOfServer
     /\ sourceControl = BagOfSeq(GroupsOfServer)
     /\ BagCardinality(sourceControl) = Cardinality(LiveIds)
     /\ Cardinality(LiveIds) = Len(Displayed) + 1

\* two overlapping Refresh calls have completed, against a server with a
\* changelist that has a shelved and an open file
C1_Witness ==
  /\ Quiescent
  /\ triggers = 2
  /\ \A p \in Callers : Updated(p)
  /\ issued["changes"] = 2
  /\ Len(Exposed) = 2
  /\ ShelvedIn(Exposed[2]) # <<>>
  /\ OpenIn(Exposed[2]) # <<>>

\* the fstat chunks one pass executes: those of the shelved paths of the
\* displayed changelists and those of the opened paths
ChunksOfOnePass ==
  Len(ChunksOf(Flatten([k \in 1..Len(Displayed) |-> Displayed[k].shelvedFiles])))
  + Len(ChunksOf([i \in 1..Len(server.opened) |-> server.opened[i].depotPath]))

\* C2 as claimed: two Refresh calls made before either completed execute
\* the commands of one pass: one `changes', one `opened', at most one
\* `describe' and one set of fstat chunks
C2_OnePass ==
  (Quiescent /\ triggers = 2 /\ \A p \in Callers : Updated(p)) =>
     /\ issued["changes"] = 1
     /\ issued["opened"] = 1
     /\ issued["describe"] <= 1
     /\ issued["fstat"] = ChunksOfOnePass

\* C3 as claimed: when a command of a Refresh call failed and the call has
\* ended, the model exposes the groups of the last pass that succeeded
C3_KeepsLastGood ==
  (Quiescent /\ lastGood.any
     /\ \E p \in Callers : outcome[p] = "commandFailed") =>
     Exposed = lastGood.groups

\* C12: a pass whose commands all succeeded, following a pass whose
\* commands all succeeded against the same server state, leaves the model
\* exposing groups with the same ids, the same labels and the same
\* resources in the same order as the pass before it
C12_Idempotent ==
  [][(lastGood.full /\ lastGood'.full /\ lastGood'.fulls = lastGood.fulls + 1)
       => lastGood'.groups = lastGood.groups]_vars

\* two Refresh calls made one after the other have both completed, each
\* fetching two open files of one group in two chunks
C12_Witness ==
  /\ Quiescent
  /\ triggers = 1
  /\ lastGood.fulls = 2
  /\ Exposed = lastGood.groups
  /\ config.maxFilePerCommand = 1
  /\ \E i \in DOMAIN Exposed : Len(OpenIn(Exposed[i])) = 2

\* C20 as claimed: while a Refresh is in flight, the groups the model
\* exposes are those of the last completed pass
C20_AtomicReplace ==
  (lastGood.any /\ ~Quiescent) => Exposed = lastGood.groups


(***************************************************************************)
(* Claims about Refresh calls against a changing server (SpecChange)       *)
(***************************************************************************)
\* C21 as claimed: when the Refresh call made first completes its pass
\* after the call made later has completed its own, it leaves the groups
\* of the later call in place
C21_LaterCallWins ==
  [][(Updated(2) /\ pc[1] # "idle" /\ Updated(1)')
       => Exposed' = Exposed]_vars


(***************************************************************************)
(* Claims about the completion order within one Refresh (SpecOne)          *)
(***************************************************************************)
\* the records of the paths, fetched chunk after chunk
InfosInTurn(paths) ==
  Flatten([i \in 1..Len(ChunksOf(paths)) |->
     getFstatInfoForChunk(
       ChunksOf(paths)[i],
       FstatOutput(server,
                   CHOOSE order \in FstatOrders(server, ChunksOf(paths)[i]) :
                     TRUE))])

\* the groups of a pass whose queries complete one after the other: the
\* changelists, the shelved files and their records, then the opened
\* files and their records
GroupsInTurn ==
  LET ci == ChangeInfosOf(config, ChangesOutput(server))
      chnums == [i \in 1..Len(ci.changeInfos) |-> ci.changeInfos[i].chnum]
      files == IF ~hideShelvedFiles(config) /\ ci.changeInfos # <<>>
               THEN getDepotShelvedFilePaths(DescribeOutput(server, chnums))
               ELSE <<>>
      shelved == IF files = <<>> THEN <<>>
                 ELSE getShelvedResources(files,
                                          InfosInTurn(ShelvedPaths(files)))
      paths == getDepotOpenedFilePaths(OpenedOutput(server))
      open == IF paths = <<>> THEN <<>>
              ELSE getDepotOpenedResources(config, InfosInTurn(paths))
      allResources == AllResources(shelved, open)
  IN ResourceGroups(config, <<NewDefaultGroup(allResources)>>,
                    NewPendingGroups(ci.changeInfos, allResources))

\* C22: the groups of a Refresh whose commands all succeeded, and the
\* order of the resources in each group, are the same for every order in
\* which the shelved listing, the opened listing and the fstat chunks
\* complete: they are those of a pass whose queries complete in turn
C22_OrderIndependent == Updated(1) => Exposed = GroupsInTurn

\* reached: a pass completed that fetched the files of one listing in two
\* chunks and gave a group a shelved and an open file
C22_Witness ==
  /\ Updated(1)
  /\ config.maxFilePerCommand = 1
  /\ issued["fstat"] = 2
  /\ issued["describe"] = 1
  /\ \E i \in DOMAIN Exposed :
       ShelvedIn(Exposed[i]) # <<>> /\ OpenIn(Exposed[i]) # <<>>

\* reached: a pass completed that fetched two opened files in two chunks
C22_WitnessChunks ==
  /\ Updated(1)
  /\ config.maxFilePerCommand = 1
  /\ \E i \in DOMAIN Exposed : Len(OpenIn(Exposed[i])) = 2


(***************************************************************************)
(* Claims about paths without an fstat record (specification Spec)         *)
(***************************************************************************)
\* C23 as claimed: with every file inside the workspace, a Refresh never
\* ends on a TypeError, whichever shelved or opened path has no fstat
\* record
C23_HolesTolerated ==
  (server.outside = {} /\ pc[1] = "idle") => outcome[1] # "threw"


\* the numbers of the opened files whose changelist the server does not
\* list
Orphans ==
  {server.opened[i].change : i \in DOMAIN server.opened}
    \ ({0} \cup {server.changelists[k].chnum : k \in DOMAIN server.changelists})

\* C24: after a Refresh whose commands all succeeded, each number of an
\* opened file that belongs to no listed changelist is logged, no group
\* holds a resource of such a number, the default group and the group of
\* every displayed changelist hold their opened files, and the pass ran to
\* its end, where the change notification is fired
C24_OrphanSkipped ==
  Updated(1) =>
    /\ logged = Orphans
    /\ \A i \in DOMAIN AllGroups :
         \A j \in DOMAIN AllGroups[i].resourceStates :
           \A n \in Orphans :
             AllGroups[i].resourceStates[j].change # NumToString(n)
    /\ DepotPaths(OpenIn(defaultGroup[1])) = OpenedPathsOf(0)
    /\ \A k \in DOMAIN Displayed :
         /\ Len(GroupsOf(Displayed[k].chnum)) = 1
         /\ DepotPaths(OpenIn(GroupsOf(Displayed[k].chnum)[1]))
              = OpenedPathsOf(Displayed[k].chnum)
    /\ lastGood.any
    /\ Exposed = lastGood.groups

\* reached: a pass completed with one file opened in a changelist the
\* server does not list and another in a displayed changelist
C24_Witness ==
  /\ Updated(1)
  /\ Orphans # {}
  /\ \E k \in DOMAIN Displayed :
       /\ OpenedPathsOf(Displayed[k].chnum) # <<>>
       /\ OpenIn(GroupsOf(Displayed[k].chnum)[1]) # <<>>


(***************************************************************************)
(* Claims about a failing fstat chunk (specification SpecFetch)            *)
(***************************************************************************)
\* the chunks of the fetch whose fstat command failed
FailedChunks ==
  {i \in DOMAIN fetch.got :
     fetch.got[i].done
       /\ Len(fetch.got[i].infos) # Len(ChunksOf(fetch.files)[i])}

\* C25: once the fstat command of a chunk has failed, the fetch is
\* rejected and stays so, without a result list, whichever chunk failed
\* and whatever the other chunks return afterwards
C25_ChunkFailureRejects ==
  FailedChunks # {} => fetch.st = "rejected" /\ fetch.result = <<>>

\* reached: the second of two chunks failed and the first returned its
\* records after that
C25_Witness ==
  /\ fetch.st = "rejected"
  /\ Len(fetch.got) = 2
  /\ FailedChunks = {2}
  /\ fetch.got[1].done
  /\ \E k \in DOMAIN fetch.got[1].infos : fetch.got[1].infos[k].defined


(***************************************************************************)
(* Claims about ShelveOrUnshelve (specification SpecShelveFile)            *)
(***************************************************************************)
\* the positions of the events equal to ev
PositionsOf(ev) == {i \in DOMAIN op.events : op.events[i] = ev}

\* the positions of the events of the kind e
PositionsOfKind(e) == {i \in DOMAIN op.events : op.events[i].e = e}

\* C26: ShelveOrUnshelve on a shelved resource executes `shelve -d' only
\* after `unshelve' succeeded, and after a failed `unshelve' executes no
\* `shelve -d' and calls no Refresh; on an open resource it asks for the
\* confirmation of the revert and executes `revert' only after `shelve -f'
\* succeeded
C26_SecondStepAfterFirst ==
  op.kind = "ShelveOrUnshelve" =>
    IF op.flag
    THEN /\ \A j \in PositionsOf(Cmd("shelve", DeleteShelvedFileArgs(op.id))) :
              \E i \in PositionsOf(Settled("unshelve", TRUE)) : i < j
         /\ CommandsOf("revert") = <<>>
         /\ Happened(Settled("unshelve", FALSE)) =>
              /\ CommandsOf("shelve") = <<>>
              /\ EventsOf("refresh") = <<>>
              /\ NoRefreshStarted
              /\ op.st = "done"
    ELSE /\ \A j \in PositionsOfKind("prompt") \cup PositionsOfKind("picked")
                      \cup {k \in DOMAIN op.events :
                              op.events[k] \in Range(CommandsOf("revert"))} :
              \E i \in PositionsOf(Settled("shelve", TRUE)) : i < j
         /\ CommandsOf("unshelve") = <<>>
         /\ Happened(Settled("shelve", FALSE)) =>
              /\ CommandsOf("revert") = <<>>
              /\ EventsOf("prompt") = <<>>
              /\ NoRefreshStarted
              /\ op.st = "done"

\* reached: `unshelve' succeeded, `shelve -d' was executed and settled,
\* and Refresh was called
C26_Witness ==
  /\ op.kind = "ShelveOrUnshelve"
  /\ op.flag
  /\ Happened(Settled("unshelve", TRUE))
  /\ Len(CommandsOf("shelve")) = 1
  /\ Happened(RefreshCalled)

\* reached: `unshelve' failed
C26_WitnessFailed ==
  /\ op.kind = "ShelveOrUnshelve"
  /\ op.flag
  /\ Happened(Settled("unshelve", FALSE))
  /\ op.st = "done"

\* reached: `shelve -f' succeeded and the revert was executed
C26_WitnessOpen ==
  /\ op.kind = "ShelveOrUnshelve"
  /\ ~op.flag
  /\ Happened(Settled("shelve", TRUE))
  /\ Len(CommandsOf("revert")) = 1


(***************************************************************************)
(* Claims about SubmitDefault (specification SpecSubmit)                   *)
(***************************************************************************)
\* C27 as claimed: SubmitDefault with hideNonWorkspaceFiles on executes a
\* submit command only when SaveToChangelist returned the number of the
\* changelist it created
C27_SubmitNeedsNumber ==
  (/\ op.kind = "SubmitDefault"
   /\ config.hideNonWorkspaceFiles
   /\ CommandsOf("submit") # <<>>) =>
     \E i \in DOMAIN op.events :
       /\ op.events[i].e = "returned"
       /\ op.events[i].text # UndefinedStr
       /\ CommandsOf("submit")
            = <<Cmd("submit", <<"-", "c", " ">> \o op.events[i].text)>>


(***************************************************************************)
(* Claims about splitArray (specification SpecSplit)                       *)
(***************************************************************************)
\* C28 as claimed: for every path list and every value of the setting the
\* loop of splitArray ends, within one iteration per path, and the chunks
\* it returns, concatenated in order, are the path list
C28_SplitTerminates ==
  /\ fetch.st = "splitting" => Len(fetch.got) <= Len(fetch.files)
  /\ fetch.st = "split" => Flatten(fetch.got) = fetch.files

\* for a chunk size of at least one the loop returns the chunks of
\* splitArray
C28_PositiveSizes ==
  (fetch.st = "split" /\ config.maxFilePerCommand.defined
     /\ config.maxFilePerCommand.value >= 1) =>
       /\ fetch.got = splitArray(fetch.files, config.maxFilePerCommand.value)
       /\ Flatten(fetch.got) = fetch.files


(***************************************************************************)
(* Claims about provideTextDocumentContent (specification SpecContent)     *)
(***************************************************************************)
\* C29 as claimed: every call of provideTextDocumentContent is eventually
\* resolved, whatever becomes of its command
C29_EventuallyResolves ==
  (op.kind = "provideTextDocumentContent") ~> (op.result = "resolved")


\* C30: once every annotate call has completed, each document has at most
\* one provider that is not disposed, and that provider is the one
\* registered for the document in _annotationsByUri
Undisposed(uri) ==
  {i \in DOMAIN annotations.providers :
     /\ annotations.providers[i].doc = uri
     /\ ~annotations.providers[i].disposed}

AllCompleted == \A p \in Callers : annotations.calls[p].st = "idle"

C30_OneProviderPerUri ==
  AllCompleted =>
    \A uri \in Uris : Undisposed(uri) \subseteq {annotations.byUri[uri]}

\* what does hold: the provider registered for a document is a provider of
\* that document and is not disposed
C30_RegisteredUndisposed ==
  \A uri \in Uris :
    annotations.byUri[uri] # 0 => annotations.byUri[uri] \in Undisposed(uri)

====
